---- MODULE Spec2Model ----
(***************************************************************************)
(* Watchables: the two-phase (dirty / change) notification protocol of     *)
(* ListenerManager, PlainField, Derived and Mutator.                       *)
(*                                                                         *)
(* All dispatch in the library is synchronous and reentrant inside one     *)
(* call stack.  Every public operation (get, onDirty, onChange, commit) is *)
(* therefore one action; its body is the library code evaluated over a     *)
(* record s that holds the whole heap and is threaded through the calls.   *)
(* A thrown exception is the field s.threw: every statement after a throw  *)
(* is skipped until a catch clears it.                                     *)
(***************************************************************************)
EXTENDS Integers, Sequences, FiniteSets, TLC

VARIABLES
    graph,                  \* the watchables that were constructed
    mut,                    \* the Mutator objects that were constructed
    throttle,               \* Throttled.throttle
    timers,                 \* the pending setTimeout calls
    expired,                \* per channel: a timer fired since t's last broadcast
    observer                \* the Observer o: its fields previous, listeners, innerDestroy

\* ------------------------------------------------------------- the graph
\* "names", the README example: two fields and one derived value computed from
\* both.  "diamond", the graph of the test "does not compute intermediate
\* incorrect values": a field s0 and derived values that each sum all the
\* earlier ones.  "pair": a field f and d = new Derived(watch => watch(f)).
\* "observer": a field f and, once constructed, o = new Observer(f).
\* "checked": list = new PlainField([..]), c = new Checked(list, arraysEqual)
\* and g = new Derived(watch => watch(c)).
\* "passive": a field f and p = new PassiveDerived(watch => watch(f)).
\* "field": fld = new Field(0) with its inner PlainField val, and a PlainField
\* src that fld.setSource(src) makes it mirror.
\* "weak": a field f with user listeners that log, unsubscribe and get
\* garbage collected.
\* "throttled": t = new Throttled(f, period) over a field f, with its signals
\* throttleStartSignal and throttleEndSignal.  "signal": t = new Throttled(sig,
\* period) over a Signal sig.
Fields ==
    IF graph = "names" THEN {"first", "last"}
    ELSE IF graph = "diamond" THEN {"s0"}
    ELSE IF graph = "signal" THEN {}
    ELSE IF graph = "field" THEN {"src", "val"}
    ELSE IF graph = "checked" THEN {"list"}
    ELSE {"f"}

Signals ==
    IF graph = "throttled" THEN {"start", "end"}
    ELSE IF graph = "signal" THEN {"sig", "start", "end"}
    ELSE {}

Throttleds == IF graph \in {"throttled", "signal"} THEN {"t"} ELSE {}

Deriveds ==
    IF graph = "names" THEN {"full"}
    ELSE IF graph = "diamond" THEN {"s1", "s2", "s3"}
    ELSE IF graph = "pair" THEN {"d"}
    ELSE IF graph \in {"throttled", "signal"} THEN Throttleds \cup {"th"}
    ELSE IF graph = "field" THEN {"fld"}
    ELSE IF graph = "passive" THEN {"p"}
    ELSE IF graph = "checked" THEN {"c", "g"}
    ELSE {}

Watchables == Fields \cup Signals \cup Deriveds

\* Largest value a field is set to.
MaxVal == 1
Values == 0 .. MaxVal

\* The inner PlainField of a Field holds {plain: v}, written v, or {watchable:
\* src}, written Mirror.
Mirror == MaxVal + 1

\* The arrays list is set to are objects 0 .. 2 * MaxVal + 1; objects 2k and
\* 2k + 1 are different arrays with the same entries (arraysEqual holds for
\* them, == does not).
Arrays == 0 .. 2 * MaxVal + 1
check(vOld, vNew) == vOld \div 2 = vNew \div 2

ValuesOf(f) ==
    IF f = "val" THEN Values \cup {Mirror}
    ELSE IF f = "list" THEN Arrays
    ELSE Values

\* The number of user listeners that get subscribed in one run.
MaxListeners == 2

\* `undefined`: the value of a Derived before its first computation.
Undef == -1

\* No further watchable is watched by a compute function.
NoWatch == "none"

VARIABLES
    value,                  \* PlainField.value / Derived.value
    dirty,                  \* ListenerManager.dirty
    signaled,               \* ListenerManager.signaled
    callingDirtyListeners,  \* ListenerManager.callingDirtyListeners
    callingChangeListeners, \* ListenerManager.callingChangeListeners
    dirtyListeners,         \* ListenerManager.dirtyListeners, in insertion order
    changeListeners,        \* ListenerManager.changeListeners, in insertion order
    dependencies,           \* Derived.dependencies
    initialized,            \* Derived.initialized
    lastRead,               \* history: <<v>>, v the value the last successful get of w returned
    dirtySince,             \* history: dirty broadcasts of w since its last successful get
    changeSince,            \* history: change broadcasts of w since its last successful get
    dirtiedSince,           \* history: the other watchables that broadcast dirty since d last ran compute
    computed,               \* history: compute of d has been invoked before
    isPassive,              \* PassiveDerived.isPassive
    fired                   \* history: parity of the timer callbacks counted by Expire

vars == <<graph, mut, throttle, timers, expired, observer, value, dirty, signaled, callingDirtyListeners, callingChangeListeners,
          dirtyListeners, changeListeners, dependencies, initialized,
          lastRead, dirtySince, changeSince, dirtiedSince, computed, isPassive, fired>>

\* ------------------------------------------------------------- listeners
\* A listener is a function identity.  Each Derived owns one dirtyListener and
\* one changeListener; a probe is a user listener `() => { try { log(t.get()) }
\* catch (e) { log(e) } }` reading watchable t.
dirtyListener(d) == [kind |-> "dirtyListener", of |-> d]
changeListener(d) == [kind |-> "changeListener", of |-> d]
Probe(t) == [kind |-> "probe", of |-> t]

\* Observer.change of the Observer of source x.
ObserverChange(x) == [kind |-> "observer", of |-> x]

\* No Observer was constructed yet.
NoObserver == [constructed |-> FALSE, previous |-> Undef, listeners |-> <<>>,
               innerDestroy |-> FALSE]

\* A listener `() => { throw new Error() }`.
Thrower == [kind |-> "thrower", of |-> NoWatch]

\* A listener `() => log(n)`, and a listener `() => unsub()` that calls the
\* unsubscribe function of its own subscription (n = "self") or of the
\* subscription of Plain(n) to the same set.
Plain(n) == [kind |-> "plain", of |-> n]
Unsubscriber(n) == [kind |-> "unsubscriber", of |-> n]
Target(l) == IF l.of = "self" THEN l ELSE Plain(l.of)

\* The WeakRef of a listener that was garbage collected: deref() gives
\* undefined.
Dead(l) == [kind |-> IF l.kind = "plain" THEN "deadPlain" ELSE "deadUnsubscriber",
            of |-> l.of]
IsDead(e) == e.kind \in {"deadPlain", "deadUnsubscriber"}

\* The probes that get subscribed, as <<channel, host, target>>: dirty probes on
\* a field reading the same field, the other field or the derived value, a
\* dirty probe on the derived value reading a field, and a change probe on the
\* derived value reading it.
ProbeMenu ==
    IF graph = "names"
    THEN {<<"dirty", "last", "first">>, <<"dirty", "last", "full">>,
          <<"dirty", "first", "first">>, <<"dirty", "full", "first">>,
          <<"change", "full", "full">>}
    ELSE IF graph = "diamond"
    THEN {<<"change", "s3", "s3">>, <<"change", "s1", "s3">>,
          <<"change", "s0", "s2">>}
    ELSE IF graph = "pair"
    THEN {<<"dirty", "f", "d">>, <<"change", "f", "f">>, <<"change", "d", "d">>}
    ELSE IF graph = "throttled"
    THEN {<<"change", "t", "t">>, <<"change", "f", "f">>}
    ELSE IF graph = "signal" THEN {<<"change", "t", "t">>}
    ELSE IF graph = "field" THEN {<<"change", "fld", "fld">>}
    ELSE IF graph = "checked" THEN {<<"change", "g", "g">>}
    ELSE {}

\* An entry of a Set that was deleted while the Set is being iterated: a JS Set
\* iterator skips it, and entries added meanwhile are appended and visited.
Deleted == [kind |-> "deleted", of |-> NoWatch]

Live(seq) == {seq[i] : i \in 1 .. Len(seq)} \ {Deleted}

RECURSIVE Compact(_)
Compact(seq) ==
    IF seq = <<>> THEN <<>>
    ELSE IF Head(seq) = Deleted THEN Compact(Tail(seq))
    ELSE <<Head(seq)>> \o Compact(Tail(seq))

Listeners(s, chan) == IF chan = "dirty" THEN s.dirtyListeners ELSE s.changeListeners

SetListeners(s, chan, w, seq) ==
    IF chan = "dirty" THEN [s EXCEPT !.dirtyListeners[w] = seq]
    ELSE [s EXCEPT !.changeListeners[w] = seq]

\* A variant of add without the `if (this.has(value)) return this`.
add_Again(s, chan, w, l) == SetListeners(s, chan, w, Append(Listeners(s, chan)[w], l))

\* IterableWeakSet.add: a value already present is not added again.
add(s, chan, w, l) ==
    LET seq == Listeners(s, chan)[w]
    IN IF l \in Live(seq) THEN s ELSE SetListeners(s, chan, w, Append(seq, l))

\* A variant of delete on an array of refs: the entries after the deleted one
\* move up at once, also under a running iteration.
delete_Splice(s, chan, w, l) ==
    SetListeners(s, chan, w, SelectSeq(Listeners(s, chan)[w], LAMBDA e : e # l))

\* IterableWeakSet.delete.
delete(s, chan, w, l) ==
    LET seq == Listeners(s, chan)[w]
        iterated == s.iterating[<<chan, w>>] > 0
        gone == [i \in 1 .. Len(seq) |-> IF seq[i] = l THEN Deleted ELSE seq[i]]
    IN SetListeners(s, chan, w, IF iterated THEN gone ELSE Compact(gone))

\* ListenerManager.onDirty / onChange (the returned unsubscribe function is
\* delete on the same set and listener).
onDirty(s, w, l) == add(s, "dirty", w, l)
onChange(s, w, l) == add(s, "change", w, l)

\* ------------------------------------------------------ compute functions
\* full = new Derived(watch => `${watch(first)} ${watch(last)}`): the watchable
\* the function watches next, given the values it has read so far.
\* s1 = new Derived(watch => watch(s0)), s2 = new Derived(watch => watch(s0) +
\* watch(s1)), s3 = new Derived(watch => watch(s0) + watch(s1) + watch(s2)).
Watches(d) ==
    IF d = "full" THEN <<"first", "last">>
    ELSE IF d = "s1" THEN <<"s0">>
    ELSE IF d \in {"d", "p"} THEN <<"f">>
    ELSE IF d = "c" THEN <<"list">>
    ELSE IF d = "g" THEN <<"c">>
    ELSE IF d = "t" THEN (IF graph = "signal" THEN <<"sig">> ELSE <<"f">>)
    ELSE IF d = "s2" THEN <<"s0", "s1">>
    ELSE <<"s0", "s1", "s2">>

\* `const throttled = !!this.throttle?.signal` of Throttled.throttling.
throttled(s) == s.throttle.active /\ s.throttle.signal # "none"

\* th = t.throttling = new Derived(watch => { if (!throttled) {
\* watch(this.throttleStartSignal); return false } else {
\* watch(this.throttleEndSignal); return true } }).
\* fld = new Derived(watch => { let val = watch(this.val); if ("watchable" in
\* val) return watch(val.watchable); return val.plain }).
Watched(s, d, vals) ==
    IF d = "th"
    THEN (IF vals # <<>> THEN NoWatch ELSE IF throttled(s) THEN "end" ELSE "start")
    ELSE IF d = "fld"
    THEN (IF vals = <<>> THEN "val"
          ELSE IF Len(vals) = 1 /\ vals[1] = Mirror THEN "src"
          ELSE NoWatch)
    ELSE IF Len(vals) < Len(Watches(d)) THEN Watches(d)[Len(vals) + 1]
    ELSE NoWatch

RECURSIVE SumSeq(_)
SumSeq(vals) == IF vals = <<>> THEN 0 ELSE Head(vals) + SumSeq(Tail(vals))

\* A variant in which the compute function of a Checked returns the value it
\* watched, whatever the previous one.
Result_Unchecked(s, d, vals) == SumSeq(vals)

\* A variant in which the compute function of a Field returns what its inner
\* field holds, also when that is a watchable.
Result_Inner(s, d, vals) == IF d = "fld" THEN vals[1] ELSE SumSeq(vals)

\* The value the compute function returns from the values it has read.
\* (th returns a boolean, written 1 for true and 0 for false.)
\* c = new Checked(list, check): `const val = watch(watchable); if (!first &&
\* check(val, previous)) return previous; first = false; return val`, where
\* previous is this.value and first is true until a computation returned, as
\* this.initialized is false until then.
Result(s, d, vals) ==
    IF d = "th" THEN (IF throttled(s) THEN 1 ELSE 0)
    ELSE IF d = "fld" THEN vals[Len(vals)]
    ELSE IF d = "c"
    THEN (IF s.initialized[d] /\ check(vals[1], s.value[d]) THEN s.value[d] ELSE vals[1])
    ELSE IF d = "full" THEN vals[1] * (MaxVal + 1) + vals[2]
    ELSE SumSeq(vals)

\* The value compute returns when every watch(x) is x.get() on the current
\* field values (the README's `compute(w => w.get())`).
RECURSIVE Transparent(_, _, _)
Transparent(s, w, vals) ==
    IF w \notin Deriveds THEN s.value[w]
    ELSE LET x == Watched(s, w, vals)
         IN IF x = NoWatch THEN Result(s, w, vals)
            ELSE Transparent(s, w, Append(vals, Transparent(s, x, <<>>)))

\* ------------------------------------------------------------- history
\* The history counters count up to CountCap and stay there.
CountCap == 2

Inc(n) == IF n < CountCap THEN n + 1 ELSE n

\* The call stack, as frames <<"get" | "dirty" | "change", w>>.
Push(s, kind, w) == [s EXCEPT !.stack = Append(@, <<kind, w>>)]
OnStack(s, kind, w) == \E i \in 1 .. Len(s.stack) : s.stack[i] = <<kind, w>>
AnyOnStack(s, kind) == \E i \in 1 .. Len(s.stack) : s.stack[i][1] = kind

\* A get of w that started in state s0 ends in state s, returning v (ok) or
\* throwing (~ok).
LogRead(s, s0, w, ok, v) ==
    LET ev == [w |-> w, ok |-> ok, v |-> v,
               prev |-> s.lastRead[w], nChange |-> s.changeSince[w],
               exp |-> Transparent(s, w, <<>>),
               own |-> OnStack(s0, "dirty", w), any |-> AnyOnStack(s0, "dirty"),
               flag |-> s0.callingDirtyListeners[w],
               clean |-> (w \notin Deriveds \/ ~s0.dirty[w]),
               dirtyAfter |-> s.dirty[w]]
        s1 == [s EXCEPT !.log.reads = Append(@, ev)]
    IN IF ok THEN [s1 EXCEPT !.lastRead[w] = <<v>>, !.dirtySince[w] = 0,
                             !.changeSince[w] = 0]
       ELSE s1

\* w broadcasts dirty / change: the guard of callDirtyListeners /
\* callChangeListeners has passed and the listeners are about to be called.
LogNote(s, chan, w) ==
    LET s1 == IF chan = "dirty"
              THEN [s EXCEPT !.dirtySince[w] = Inc(@),
                             !.dirtiedSince = [d \in Deriveds |-> @[d] \cup ({w} \ {d})]]
              ELSE [s EXCEPT !.changeSince[w] = Inc(@)]
        ev == [w |-> w, chan |-> chan, read |-> s.lastRead[w] # <<>>,
               nDirty |-> s1.dirtySince[w], nChange |-> s1.changeSince[w],
               inDirty |-> \E x \in Watchables : x # w /\ s.callingDirtyListeners[x],
               epoch |-> s.fresh, expired |-> s.expired[chan],
               wasDirty |-> s.dirty[w]]
    IN IF w \in Throttleds
       THEN [s1 EXCEPT !.log.notes = Append(@, ev), !.expired[chan] = FALSE]
       ELSE [s1 EXCEPT !.log.notes = Append(@, ev)]

\* Derived d invokes its compute function.
LogCompute(s, d) ==
    LET cause == \E i \in 1 .. Len(s.dependencies[d]) :
                    LET dep == s.dependencies[d][i]
                    IN /\ dep.watchable \in s.dirtiedSince[d]
                       /\ Transparent(s, dep.watchable, <<>>) # dep.value
        ev == [w |-> d, inGet |-> OnStack(s, "get", d), again |-> s.computed[d],
               initialized |-> s.initialized[d], cause |-> cause]
    IN [s EXCEPT !.log.computes = Append(@, ev), !.computed[d] = TRUE,
                 !.dirtiedSince[d] = {}]

\* ------------------------------------------------------- ListenerManager
\* Every operator below takes the heap s and gives the heap after the call.  A
\* statement that follows a nested call is an operator of its own, applied to
\* the heap the nested call gives (named after the statement it models).
RECURSIVE get(_, _)
RECURSIVE callListeners(_, _, _, _)
RECURSIVE callDirtyListeners(_, _)
RECURSIVE callChangeListeners(_, _)

\* Variants of checkNotDispatchingDirty: no guard at all, and a guard on every
\* registry of the graph.
checkNotDispatchingDirty_Off(s, w) == s

checkNotDispatchingDirty_Graph(s, w) ==
    IF \E x \in Watchables : s.callingDirtyListeners[x]
    THEN [s EXCEPT !.threw = TRUE] ELSE s

\* ListenerManager.checkNotDispatchingDirty: throws while the registry's own
\* dirty listeners are being called.
checkNotDispatchingDirty(s, w) ==
    IF s.callingDirtyListeners[w] THEN [s EXCEPT !.threw = TRUE] ELSE s

\* The end of `for (const listener of this.xListeners) listener()`: entries
\* deleted during the outermost iteration are gone from the Set.
IterateEnd(s2, chan, w) ==
    LET s3 == [s2 EXCEPT !.iterating[<<chan, w>>] = @ - 1]
    IN IF s3.iterating[<<chan, w>>] = 0
       THEN SetListeners(s3, chan, w, Compact(Listeners(s3, chan)[w]))
       ELSE s3

\* `for (const listener of this.xListeners) listener()`: the iteration is over
\* the live Set; it ends when a listener throws.
Iterate(s, chan, w) ==
    IterateEnd(callListeners([s EXCEPT !.iterating[<<chan, w>>] = @ + 1], chan, w, 1),
               chan, w)

\* ------------------------------------------------------------ PlainField
\* PlainField.get.
PlainField_get(s, w) ==
    LET s1 == checkNotDispatchingDirty(s, w)
    IN IF s1.threw THEN LogRead(s1, s, w, FALSE, Undef)
       ELSE LogRead([s1 EXCEPT !.dirty[w] = FALSE, !.ret = s.value[w]],
                    s, w, TRUE, s.value[w])

\* ---------------------------------------------------------------- Signal
\* `this.value++` on the value a Signal is constructed with (undefined).
NaN == -2

\* Signal.get.
Signal_get(s, w) ==
    IF checkNotDispatchingDirty(s, w).threw
    THEN LogRead(checkNotDispatchingDirty(s, w), s, w, FALSE, Undef)
    ELSE LogRead([s EXCEPT !.dirty[w] = FALSE, !.ret = s.value[w]],
                 s, w, TRUE, s.value[w])

\* --------------------------------------------------------------- Derived
RECURSIVE requiresRecomputeFrom(_, _, _)
RECURSIVE compute(_, _, _, _)
RECURSIVE resubscribe(_, _, _)

\* Derived.createDependency: subscribes d's two listeners to x; the new
\* dependency record is left in s.ret.
createDependency(s, d, x, v) ==
    LET s1 == onDirty(s, x, dirtyListener(d))
        s2 == onChange(s1, x, changeListener(d))
    IN [s2 EXCEPT !.ret = [watchable |-> x, value |-> v,
                           unsubDirty |-> TRUE, unsubChange |-> TRUE]]

\* `if (watchable.get() != value) return true`, s1 the heap after the get of
\* dependency i: otherwise the loop goes on with dependency i + 1.
requiresRecomputeCompare(s1, d, i, observed) ==
    IF s1.threw THEN s1
    ELSE IF s1.ret # observed \/ s1.ret = NaN THEN [s1 EXCEPT !.ret = TRUE]
    ELSE requiresRecomputeFrom(s1, d, i + 1)

\* The loop of Derived.requiresRecompute over dependencies i, i+1, ...: s.ret is
\* TRUE at the first dependency whose get() differs from the stored value.
requiresRecomputeFrom(s, d, i) ==
    IF i > Len(s.dependencies[d]) THEN [s EXCEPT !.ret = FALSE]
    ELSE requiresRecomputeCompare(get(s, s.dependencies[d][i].watchable), d, i,
                                  s.dependencies[d][i].value)

\* A variant of requiresRecompute that never takes the fast path.
requiresRecompute_Always(s, d) == [s EXCEPT !.ret = TRUE]

\* Derived.requiresRecompute.
requiresRecompute(s, d) ==
    IF ~s.initialized[d] THEN [s EXCEPT !.ret = TRUE]
    ELSE requiresRecomputeFrom(s, d, 1)

\* The `watch` closure after `const value = dependency.get()`, s1 the heap
\* after that get.
watchRegister(s1, d, cid, x) ==
    LET v == s1.ret
        outdated == cid # s1.computationID[d]
        alreadyRegistered == x \in s1.foundDependencies[d]
        s2 == createDependency([s1 EXCEPT !.foundDependencies[d] = @ \cup {x}], d, x, v)
    IN IF s1.threw THEN s1
       ELSE IF outdated \/ alreadyRegistered THEN s1
       ELSE [s2 EXCEPT !.dependencies[d] = Append(@, s2.ret), !.ret = v]

\* The `watch` closure of updateValueIfNecessary, for the computation with id
\* cid (its catch only logs and rethrows).
watch(s, d, cid, x) == watchRegister(get(s, x), d, cid, x)

\* The compute function goes on after watch returned (s1 the heap then).
computeNext(s1, d, cid, vals) ==
    IF s1.threw THEN s1 ELSE compute(s1, d, cid, Append(vals, s1.ret))

\* `this.value = this.compute(watch, this.value); this.initialized = true`, the
\* compute function having read vals so far.
compute(s, d, cid, vals) ==
    IF Watched(s, d, vals) = NoWatch
    THEN [s EXCEPT !.value[d] = Result(s, d, vals), !.initialized[d] = TRUE]
    ELSE computeNext(watch(s, d, cid, Watched(s, d, vals)), d, cid, vals)

\* A variant of the fast path that leaves the dependencies as they are.
resubscribe_None(s, d, i) == s

\* `this.dependencies = this.dependencies.map(createDependency)` from entry i.
resubscribe(s, d, i) ==
    IF i > Len(s.dependencies[d]) THEN s
    ELSE LET dep == s.dependencies[d][i]
             s1 == createDependency(s, d, dep.watchable, dep.value)
         IN resubscribe([s1 EXCEPT !.dependencies[d][i] = s1.ret], d, i + 1)

\* `for (const {unsubChange} of this.dependencies) unsubChange?.()`.
RECURSIVE cleanupOldDependencies(_, _, _)
cleanupOldDependencies(s, d, i) ==
    IF i > Len(s.dependencies[d]) THEN s
    ELSE LET dep == s.dependencies[d][i]
             s1 == IF dep.unsubChange
                   THEN delete(s, "change", dep.watchable, changeListener(d))
                   ELSE s
         IN cleanupOldDependencies(s1, d, i + 1)

\* Derived.updateValueIfNecessary after `this.requiresRecompute()`, s2 the heap
\* it gives: the resubscription, or the cleanup and the computation.
updateValue(s2, d) ==
    LET cid == s2.computationID[d] + 1
        s3 == [s2 EXCEPT !.computationID[d] = cid]
        s4 == [cleanupOldDependencies(LogCompute(s3, d), d, 1) EXCEPT
                   !.dependencies[d] = <<>>, !.foundDependencies[d] = {}]
    IN IF s2.threw THEN s2
       ELSE IF ~s2.ret THEN resubscribe(s2, d, 1)
       ELSE compute(s4, d, cid, <<>>)

\* Derived.updateValueIfNecessary.
updateValueIfNecessary(s, d) ==
    IF ~s.dirty[d] THEN s
    ELSE updateValue(requiresRecompute([s EXCEPT !.dirty[d] = FALSE], d), d)

\* `return this.value` of Derived.get, s2 the heap after
\* updateValueIfNecessary and s the heap the get started in.
Derived_return(s2, s, d) ==
    LET s3 == [s2 EXCEPT !.stack = s.stack]
    IN IF s3.threw THEN LogRead(s3, s, d, FALSE, Undef)
       ELSE LogRead([s3 EXCEPT !.ret = s3.value[d]], s, d, TRUE, s3.value[d])

\* Derived.get.
Derived_get(s, d) ==
    IF checkNotDispatchingDirty(s, d).threw
    THEN LogRead(checkNotDispatchingDirty(s, d), s, d, FALSE, Undef)
    ELSE Derived_return(updateValueIfNecessary(Push(s, "get", d), d), s, d)

\* IWatchable.get.
get(s, w) ==
    IF w \in Fields THEN PlainField_get(s, w)
    ELSE IF w \in Signals THEN Signal_get(s, w)
    ELSE Derived_get(s, w)

\* ----------------------------------------- ListenerManager: the broadcasts
RECURSIVE whenDirty(_, _)
RECURSIVE whenChange(_, _)
RECURSIVE commit(_, _)
RECURSIVE Throttled_whenDirty(_, _)
RECURSIVE Throttled_whenChange(_, _)

\* The probe after its get (s1 the heap then, s the heap it was called in): it
\* records what the get gave and returns normally.
probeLog(s1, s, chan, host, l) ==
    LET ev == [l |-> l, host |-> host, chan |-> chan, ok |-> ~s1.threw,
               v |-> IF s1.threw THEN Undef ELSE s1.ret,
               fvals |-> [f \in Fields |-> s.value[f]]]
    IN [s1 EXCEPT !.threw = FALSE, !.stack = s.stack, !.log.calls = Append(@, ev)]

\* `for (const listener of this.listeners) listener(val, this.previous)`: the
\* calls it makes, in order.
Deliveries(listeners, val, previous) ==
    [i \in 1 .. Len(listeners) |-> [l |-> listeners[i], val |-> val, prev |-> previous]]

\* The mutator PlainField.set(v) of field f returns.
Set(f, v) == [kind |-> "set", field |-> f, val |-> v, a |-> "m", b |-> "n"]

\* The listener "w" given to the Observer of the "nested" graph:
\* `(val, prev) => { if (val == MaxVal) f.set(0).commit() }`, the mutator it
\* makes written "n".
Writer == "w"
Writer_call(s, val) ==
    IF val # MaxVal THEN s
    ELSE commit([s EXCEPT !.mutators["n"] = Set("f", 0), !.performed["n"] = FALSE,
                          !.msignaled["n"] = FALSE], "n")

\* `listener(val, this.previous)` for entry i of this.listeners.
Observer_listener(s, i, val) ==
    LET s1 == [s EXCEPT !.log.delivered =
                            Append(@, [l |-> s.observer.listeners[i], val |-> val,
                                       prev |-> s.observer.previous])]
    IN IF s.observer.listeners[i] = Writer THEN Writer_call(s1, val) ELSE s1

\* `for (const listener of this.listeners) listener(val, this.previous);
\* this.previous = val` from entry i on.
RECURSIVE Observer_call(_, _, _)
Observer_call(s, i, val) ==
    IF s.threw THEN s
    ELSE IF i > Len(s.observer.listeners) THEN [s EXCEPT !.observer.previous = val]
    ELSE Observer_call(Observer_listener(s, i, val), i + 1, val)

\* A variant of Observer.change without `if (this.previous == val) return`.
Observer_changed_Always(s1) ==
    IF s1.threw THEN s1 ELSE Observer_call(s1, 1, s1.ret)

\* Observer.change after `let val = this.source.get()`, s1 the heap then.
Observer_changed(s1) ==
    IF s1.threw THEN s1
    ELSE IF s1.observer.previous = s1.ret THEN s1
    ELSE Observer_call(s1, 1, s1.ret)

\* What a listener that starts with a get of l.of does with what it gave.
afterGet(s1, s, chan, host, l) ==
    IF l.kind = "observer" THEN Observer_changed(s1) ELSE probeLog(s1, s, chan, host, l)

\* A probe listener subscribed to channel chan of host: it reads its target
\* inside try / catch and records what the read gave.  Observer.change reads
\* its source in the same place.
probe(s, chan, host, l) == afterGet(get(s, l.of), s, chan, host, l)

\* Listener l of channel chan of host is about to be called.
LogInvoke(s, chan, host, l) ==
    [s EXCEPT !.log.invoked = Append(@, [l |-> l, host |-> host, chan |-> chan])]

\* `listener()` for one entry of a listener set.
invoke(s, chan, host, l) ==
    IF l.kind = "plain" THEN LogInvoke(s, chan, host, l)
    ELSE IF l.kind = "unsubscriber"
    THEN delete(LogInvoke(s, chan, host, l), chan, host, Target(l))
    ELSE IF l.kind = "dirtyListener" /\ l.of \in Throttleds
    THEN Throttled_whenDirty(LogInvoke(s, chan, host, l), l.of)
    ELSE IF l.kind = "changeListener" /\ l.of \in Throttleds
    THEN Throttled_whenChange(LogInvoke(s, chan, host, l), l.of)
    ELSE IF l.kind = "dirtyListener" THEN whenDirty(LogInvoke(s, chan, host, l), l.of)
    ELSE IF l.kind = "changeListener" THEN whenChange(LogInvoke(s, chan, host, l), l.of)
    ELSE IF l.kind = "thrower" THEN [LogInvoke(s, chan, host, l) EXCEPT !.threw = TRUE]
    ELSE probe(LogInvoke(s, chan, host, l), chan, host, l)

\* The iteration after entry i was called (s1 the heap then).
callNext(s1, chan, w, i) ==
    IF s1.threw THEN s1 ELSE callListeners(s1, chan, w, i + 1)

\* The iteration from entry i of the listener set on.
callListeners(s, chan, w, i) ==
    IF i > Len(Listeners(s, chan)[w]) THEN s
    ELSE IF Listeners(s, chan)[w][i] = Deleted \/ IsDead(Listeners(s, chan)[w][i])
    THEN callNext(s, chan, w, i)
    ELSE callNext(invoke(s, chan, w, Listeners(s, chan)[w][i]), chan, w, i)

\* `this.callingXListeners = false` after the loop (not reached when a listener
\* threw); s2 is the heap after the loop, s the heap the call started in.
callListenersEnd(s2, s, chan, w) ==
    LET s3 == [s2 EXCEPT !.stack = s.stack]
    IN IF s3.threw THEN s3
       ELSE IF chan = "dirty" THEN [s3 EXCEPT !.callingDirtyListeners[w] = FALSE]
       ELSE [s3 EXCEPT !.callingChangeListeners[w] = FALSE]

\* ListenerManager.callDirtyListeners.
callDirtyListeners(s, w) ==
    IF s.dirty[w] THEN s
    ELSE callListenersEnd(
             Iterate(Push(LogNote([s EXCEPT !.dirty[w] = TRUE, !.signaled[w] = FALSE,
                                            !.callingDirtyListeners[w] = TRUE],
                                  "dirty", w), "dirty", w), "dirty", w),
             s, "dirty", w)

\* A variant of callChangeListeners without the `if (this.signaled) return`.
callChangeListeners_Always(s, w) ==
    callListenersEnd(
        Iterate(Push(LogNote([s EXCEPT !.signaled[w] = TRUE,
                                       !.callingChangeListeners[w] = TRUE],
                             "change", w), "change", w), "change", w),
        s, "change", w)

\* ListenerManager.callChangeListeners.
callChangeListeners(s, w) ==
    IF s.signaled[w] THEN s
    ELSE callListenersEnd(
             Iterate(Push(LogNote([s EXCEPT !.signaled[w] = TRUE,
                                            !.callingChangeListeners[w] = TRUE],
                                  "change", w), "change", w), "change", w),
             s, "change", w)

\* ------------------------------------------- Derived: receiving the events
RECURSIVE unsubDependencies(_, _, _, _)
\* `for (const dep of this.dependencies) { dep.unsubX?.(); dep.unsubX = undefined }`
unsubDependencies(s, chan, d, i) ==
    IF i > Len(s.dependencies[d]) THEN s
    ELSE LET dep == s.dependencies[d][i]
             has == IF chan = "dirty" THEN dep.unsubDirty ELSE dep.unsubChange
             l == IF chan = "dirty" THEN dirtyListener(d) ELSE changeListener(d)
             s1 == IF has THEN delete(s, chan, dep.watchable, l) ELSE s
             s2 == IF chan = "dirty"
                   THEN [s1 EXCEPT !.dependencies[d][i].unsubDirty = FALSE]
                   ELSE [s1 EXCEPT !.dependencies[d][i].unsubChange = FALSE]
         IN unsubDependencies(s2, chan, d, i + 1)

\* A variant of unsubDirtyDependencies that keeps the dirty subscriptions.
unsubDirtyDependencies_None(s, d) == s

\* Derived.unsubDirtyDependencies.
unsubDirtyDependencies(s, d) ==
    IF s.dirty[d] THEN s ELSE unsubDependencies(s, "dirty", d, 1)

\* Derived.unsubChangeDependencies.
unsubChangeDependencies(s, d) ==
    IF s.signaled[d] THEN s ELSE unsubDependencies(s, "change", d, 1)

\* A variant of whenDirty that forwards change right after dirty.
whenDirty_AndChange(s, d) ==
    callChangeListeners(callDirtyListeners(unsubDirtyDependencies(s, d), d), d)

\* Derived.whenDirty.
whenDirty(s, d) == callDirtyListeners(unsubDirtyDependencies(s, d), d)

\* A variant of whenChange that updates the value on receipt of the event.
whenChange_Eager(s, d) ==
    LET s1 == IF s.dirty[d] THEN unsubChangeDependencies(s, d) ELSE s
        s2 == updateValueIfNecessary(s1, d)
    IN callChangeListeners([s2 EXCEPT !.threw = FALSE], d)

\* Derived.whenChange.
whenChange(s, d) ==
    callChangeListeners(IF s.dirty[d] THEN unsubChangeDependencies(s, d) ELSE s, d)

\* -------------------------------------------------------------- Throttled
MaxTimers == 2

\* `protected activeIndicator: boolean = true`
activeIndicator == TRUE

\* `this.throttle = undefined`
NoThrottle == [active |-> FALSE, type |-> "dirty", signal |-> "none", timeoutID |-> 0]

\* setTimeout(this.throttleEnd, this.period): the id of the new timer.
setTimeout(pending) ==
    CHOOSE i \in 1 .. MaxTimers + 1 :
        i \notin pending /\ \A j \in 1 .. i - 1 : j \in pending

\* `this.throttle = {timeoutID: setTimeout(this.throttleEnd, this.period), type}`
startEpoch(s, type) ==
    [s EXCEPT !.throttle = [active |-> TRUE, type |-> type, signal |-> "none",
                            timeoutID |-> setTimeout(s.timers)],
              !.timers = @ \cup {setTimeout(s.timers)},
              !.fresh = TRUE]

\* A variant of whenChange that does not cancel the timer of the epoch it
\* replaces.
clearTimeout_None(s) == s

\* `if (this.throttle) clearTimeout(this.throttle.timeoutID)`
clearTimeout(s) ==
    IF s.throttle.active THEN [s EXCEPT !.timers = @ \ {s.throttle.timeoutID}] ELSE s

\* Signal.markDirty.
markDirty(s, w) ==
    IF s.dirty[w] THEN s ELSE callDirtyListeners([s EXCEPT !.value[w] = NaN], w)

\* Signal.markChanged.
markChanged(s, w) == callChangeListeners(s, w)

\* `if (!this.throttle.signal) { this.throttle.signal = "dirty";
\* this.throttleStartSignal.markDirty() }`, s1 the heap after
\* unsubDirtyDependencies.
Throttled_suppressDirty(s1) ==
    IF s1.throttle.signal = "none"
    THEN markDirty([s1 EXCEPT !.throttle.signal = "dirty"], "start")
    ELSE s1

\* A variant of Throttled.whenDirty that forwards every dirty event.
Throttled_whenDirty_Forward(s, t) ==
    callDirtyListeners(unsubDirtyDependencies([s EXCEPT !.signaled[t] = FALSE], t), t)

\* `if (!this.activeIndicator) this.unsubDirtyDependencies()`
unsubDirtyUnlessIndicator(s, t) ==
    IF activeIndicator THEN s ELSE unsubDirtyDependencies(s, t)

\* `if (!this.activeIndicator) this.unsubChangeDependencies()`
unsubChangeUnlessIndicator(s, t) ==
    IF activeIndicator THEN s ELSE unsubChangeDependencies(s, t)

\* Throttled.whenDirty.
Throttled_whenDirty(s, t) ==
    IF s.throttle.active
    THEN Throttled_suppressDirty(
             unsubDirtyDependencies([s EXCEPT !.signaled[t] = FALSE], t))
    ELSE callDirtyListeners(
             startEpoch(unsubDirtyUnlessIndicator([s EXCEPT !.signaled[t] = FALSE], t),
                        "dirty"), t)

\* super.callChangeListeners() of the override, s1 the heap after the
\* this.source.get() that precedes it when the throttle is observed.
Throttled_superCallChangeListeners(s1, t) ==
    IF s1.threw THEN s1 ELSE callChangeListeners(s1, t)

\* `const throttleIsObserved = !this.throttleStartSignal.isDirty();
\* if (throttleIsObserved) this.source.get()`
Throttled_observe(s, t) ==
    IF activeIndicator /\ ~s.dirty["start"] THEN get(s, Watches(t)[1]) ELSE s

\* Throttled.callChangeListeners.
Throttled_callChangeListeners(s, t) ==
    Throttled_superCallChangeListeners(Throttled_observe(s, t), t)

\* A variant of Throttled.whenChange that forwards every change event.
Throttled_whenChange_Forward(s, t) ==
    IF s.signaled[t] THEN s ELSE Throttled_callChangeListeners(s, t)

\* Throttled.whenChange.
Throttled_whenChange(s, t) ==
    IF s.signaled[t] THEN s
    ELSE IF s.throttle.active /\ s.throttle.type = "change"
    THEN markChanged([unsubChangeDependencies([s EXCEPT !.signaled[t] = TRUE], t)
                          EXCEPT !.throttle.signal = "change"], "start")
    ELSE Throttled_callChangeListeners(
             startEpoch(clearTimeout(unsubChangeUnlessIndicator(s, t)), "change"), t)

\* `this.throttleEndSignal.markChanged()` of throttleEnd, s3 the heap after
\* this.callChangeListeners().
throttleEndChanged(s3) == IF s3.threw THEN s3 ELSE markChanged(s3, "end")

\* `if (signal == "change") { ... }` of throttleEnd, s2 the heap after
\* this.throttleEndSignal.markDirty().
throttleEndChange(s2, t, sgn) ==
    IF s2.threw \/ sgn # "change" THEN s2
    ELSE throttleEndChanged(Throttled_callChangeListeners(s2, t))

\* `this.throttleEndSignal.markDirty()` of throttleEnd, s1 the heap after
\* this.callDirtyListeners().
throttleEndDirty(s1) == IF s1.threw THEN s1 ELSE markDirty(s1, "end")

\* A variant of throttleEnd that ends the epoch without the broadcasts of the
\* suppressed signal.
throttleEnd_Drop(s, t) ==
    IF ~s.throttle.active THEN s ELSE [s EXCEPT !.throttle = NoThrottle]

\* Throttled.throttleEnd, the callback of the timers.
throttleEnd(s, t) ==
    IF ~s.throttle.active THEN s
    ELSE IF s.throttle.signal = "none" THEN [s EXCEPT !.throttle = NoThrottle]
    ELSE throttleEndChange(
             throttleEndDirty(callDirtyListeners(startEpoch(s, s.throttle.signal), t)),
             t, s.throttle.signal)

\* --------------------------------------------------------------- Mutator
\* The mutators of one operation: "m" and "n" are made by PlainField.set, "c" is
\* m.chain(n).
MutatorIds == {"m", "n", "c"}
Chain(a, b) == [kind |-> "chain", field |-> NoWatch, val |-> 0, a |-> a, b |-> b]

\* a.chain(() => b): next given as a function that returns b.
ChainFn(a, b) == [kind |-> "chainFn", a |-> a, b |-> b]

\* a.map(f)
Map(a) == [kind |-> "map", a |-> a]

\* chain(push => { push(kids[1]); push(kids[2]); ... }) of mutator/chain.ts
Builder(kids) == [kind |-> "builder", kids |-> kids]

\* new Mutator(() => {}, () => {})
dummyMutator == [kind |-> "dummy"]

\* m = new Mutator(p, s) whose callbacks record that they ran; re names the
\* call `try { m.re() } catch (e) {}` that p makes first, "none" for no call.
Leaf(re) == [kind |-> "leaf", re |-> re]

RECURSIVE perform(_, _)
RECURSIVE signal(_, _)
RECURSIVE builder_perform(_, _, _, _)
RECURSIVE builder_signal(_, _, _)

\* An equalsCheck that never finds two values equal.
equals_Never(oldVal, newVal) == FALSE

\* The default equalsCheck of PlainField: (oldVal, newVal) => oldVal == newVal.
equals(oldVal, newVal) == oldVal = newVal

\* `this.value = value` of the perform callback of PlainField.set, s1 the heap
\* after callDirtyListeners.
set_write(s1, f, v) == IF s1.threw THEN s1 ELSE [s1 EXCEPT !.value[f] = v]

\* The perform callback of PlainField.set.
set_perform(s, f, v) ==
    IF equals(s.value[f], v) THEN s ELSE set_write(callDirtyListeners(s, f), f, v)

\* The signal callback of PlainField.set.
set_signal(s, f) == callChangeListeners(s, f)

\* `return {result: nextMut.perform(), pass: nextMut}`, s2 the heap after
\* nextMut.perform().
chain_pass(s2, b) == IF s2.threw THEN s2 ELSE [s2 EXCEPT !.ret = <<b>>]

\* The perform callback of Mutator.chain after this.perform() (s1 the heap
\* then), next given as a mutator.
chain_performNext(s1, b) == IF s1.threw THEN s1 ELSE chain_pass(perform(s1, b), b)

\* The perform callback of Mutator.chain: it passes nextMut on to the signal
\* callback.
chain_perform(s, a, b) == chain_performNext(perform(s, a), b)

\* `nextMut?.signal()` of the signal callback of Mutator.chain, s1 the heap
\* after this.signal().
chain_signalNext(s1, nextMut) ==
    IF s1.threw \/ nextMut = <<>> THEN s1 ELSE signal(s1, nextMut[1])

\* A variant of chain_signal that signals nextMut before this.
chain_signal_NextFirst(s, a, nextMut) ==
    signal(chain_signalNext(s, nextMut), a)

\* The signal callback of Mutator.chain.
chain_signal(s, a, nextMut) == chain_signalNext(signal(s, a), nextMut)

\* `muts.push(mutator)` of the add closure of chain(obtain), s1 the heap after
\* mutator.perform().
builder_push(s1, kids, i, muts) ==
    IF s1.threw THEN s1 ELSE builder_perform(s1, kids, i + 1, Append(muts, kids[i]))

\* The perform callback of chain(obtain), obtain adding kids[i], kids[i + 1], ...
builder_perform(s, kids, i, muts) ==
    IF i > Len(kids) THEN [s EXCEPT !.ret = muts]
    ELSE builder_push(perform(s, kids[i]), kids, i, muts)

\* The next iteration of `for (const mut of muts) mut.signal()`.
builder_signalNext(s1, muts, i) ==
    IF s1.threw THEN s1 ELSE builder_signal(s1, muts, i + 1)

\* The signal callback of chain(obtain).
builder_signal(s, muts, i) ==
    IF i > Len(muts) THEN s ELSE builder_signalNext(signal(s, muts[i]), muts, i)

\* m.commit(), m.perform() or m.signal().
callMut(s, c, m) ==
    IF c = "commit" THEN commit(s, m)
    ELSE IF c = "perform" THEN perform(s, m)
    ELSE signal(s, m)

\* The call c of m that started in heap s ended in s1; the caller catches what
\* it threw.
callCatch(s1, s, c, m) ==
    [s1 EXCEPT !.threw = FALSE,
               !.log.mcalls = Append(@, [c |-> c, m |-> m, threw |-> s1.threw,
                                         performed |-> s.performed[m],
                                         signaled |-> s.msignaled[m]])]

\* try { m.c() } catch (e) {}
tryCall(s, c, m) == callCatch(callMut(s, c, m), s, c, m)

\* The perform callback of a leaf after its reentrant call: it records that
\* it ran.
leaf_ran(s1, m) == [s1 EXCEPT !.log.trace = Append(@, <<"perform", m>>)]

\* The perform callback of a leaf.
leaf_perform(s, m) ==
    IF s.mutators[m].re = "none" THEN leaf_ran(s, m)
    ELSE leaf_ran(tryCall(s, s.mutators[m].re, m), m)

\* The signal callback of a leaf.
leaf_signal(s, m) == [s EXCEPT !.log.trace = Append(@, <<"signal", m>>)]

\* The callback `perform` given to the Mutator constructor.
performBody(s, m) ==
    IF s.mutators[m].kind = "set"
    THEN set_perform(s, s.mutators[m].field, s.mutators[m].val)
    ELSE IF s.mutators[m].kind \in {"chain", "chainFn"}
    THEN chain_perform(s, s.mutators[m].a, s.mutators[m].b)
    ELSE IF s.mutators[m].kind = "map" THEN perform(s, s.mutators[m].a)
    ELSE IF s.mutators[m].kind = "builder"
    THEN builder_perform(s, s.mutators[m].kids, 1, <<>>)
    ELSE IF s.mutators[m].kind = "leaf" THEN leaf_perform(s, m)
    ELSE s

\* this.performCB() returned (s1 the heap then): `pass` is left in s.ret,
\* undefined (<<>>) when the mutator was constructed without passing.
performReturn(s1, m) ==
    IF s1.threw THEN s1
    ELSE IF s1.mutators[m].kind \in {"chain", "chainFn", "builder"}
    THEN [s1 EXCEPT !.done[m] = TRUE]
    ELSE [s1 EXCEPT !.done[m] = TRUE, !.ret = <<>>]

\* this.performCB()
performCB(s, m) ==
    performReturn(performBody([s EXCEPT !.nPerform[m] = Inc(@)], m), m)

\* The callback `signal` given to the Mutator constructor.
signalBody(s, m, pass) ==
    IF s.mutators[m].kind = "set" THEN set_signal(s, s.mutators[m].field)
    ELSE IF s.mutators[m].kind \in {"chain", "chainFn"}
    THEN chain_signal(s, s.mutators[m].a, pass)
    ELSE IF s.mutators[m].kind = "map" THEN signal(s, s.mutators[m].a)
    ELSE IF s.mutators[m].kind = "builder" THEN builder_signal(s, pass, 1)
    ELSE IF s.mutators[m].kind = "leaf" THEN leaf_signal(s, m)
    ELSE s

\* this.signalCB(pass).
signalCB(s, m, pass) ==
    signalBody([s EXCEPT !.nSignal[m] = Inc(@), !.early[m] = @ \/ ~s.done[m]],
               m, pass)

\* `this.signaled = true; this.signalCB(pass)` of Mutator.commit, s1 the heap
\* after this.performCB().
commitSignal(s1, m) ==
    IF s1.threw THEN s1
    ELSE signalCB([s1 EXCEPT !.msignaled[m] = TRUE], m, s1.ret)

\* Mutator.commit.
commit(s, m) ==
    IF s.performed[m] \/ s.msignaled[m] THEN [s EXCEPT !.threw = TRUE]
    ELSE commitSignal(performCB([s EXCEPT !.performed[m] = TRUE], m), m)

\* `this.passed = pass` of Mutator.perform, s1 the heap after this.performCB().
performPass(s1, m) == IF s1.threw THEN s1 ELSE [s1 EXCEPT !.passed[m] = s1.ret]

\* Mutator.perform.
perform(s, m) ==
    IF s.performed[m] THEN [s EXCEPT !.threw = TRUE]
    ELSE performPass(performCB([s EXCEPT !.performed[m] = TRUE], m), m)

\* Mutator.signal.
signal(s, m) ==
    IF ~s.performed[m] \/ s.msignaled[m] THEN [s EXCEPT !.threw = TRUE]
    ELSE signalCB([s EXCEPT !.msignaled[m] = TRUE], m, s.passed[m])

\* ------------------------------------------------------------ operations
EmptyLog == [reads |-> <<>>, notes |-> <<>>, calls |-> <<>>, computes |-> <<>>,
             invoked |-> <<>>, mcalls |-> <<>>, trace |-> <<>>, delivered |-> <<>>]

\* The heap at the start of an operation that uses the mutators muts.  The
\* computationID of a Derived is only compared with the copy a computation took
\* of it on the same call stack, so it is counted from the start of the
\* operation.  s.log collects what happens inside the operation.
Heap(muts) ==
    [value |-> value, dirty |-> dirty, signaled |-> signaled,
     callingDirtyListeners |-> callingDirtyListeners,
     callingChangeListeners |-> callingChangeListeners,
     dirtyListeners |-> dirtyListeners, changeListeners |-> changeListeners,
     dependencies |-> dependencies, initialized |-> initialized,
     computationID |-> [d \in Deriveds |-> 0],
     foundDependencies |-> [d \in Deriveds |-> {}],
     iterating |-> [k \in {"dirty", "change"} \X Watchables |-> 0],
     mutators |-> muts,
     performed |-> [m \in DOMAIN muts |-> FALSE],
     msignaled |-> [m \in DOMAIN muts |-> FALSE],
     passed |-> [m \in DOMAIN muts |-> <<>>],
     nPerform |-> [m \in DOMAIN muts |-> 0],
     nSignal |-> [m \in DOMAIN muts |-> 0],
     done |-> [m \in DOMAIN muts |-> FALSE],
     early |-> [m \in DOMAIN muts |-> FALSE],
     throttle |-> throttle, timers |-> timers, expired |-> expired, fresh |-> FALSE,
     observer |-> observer,
     threw |-> FALSE, ret |-> 0, stack |-> <<>>,
     lastRead |-> lastRead, dirtySince |-> dirtySince, changeSince |-> changeSince,
     dirtiedSince |-> dirtiedSince, computed |-> computed, isPassive |-> isPassive,
     fired |-> fired,
     log |-> EmptyLog]

NoMutators == [m \in MutatorIds |-> Set("first", 0)]

\* The operation took the heap to s.
Store(s) ==
    /\ s.timers \subseteq 1 .. MaxTimers
    /\ graph' = graph
    /\ mut' = mut
    /\ throttle' = s.throttle
    /\ timers' = s.timers
    /\ expired' = s.expired
    /\ observer' = s.observer
    /\ value' = s.value
    /\ dirty' = s.dirty
    /\ signaled' = s.signaled
    /\ callingDirtyListeners' = s.callingDirtyListeners
    /\ callingChangeListeners' = s.callingChangeListeners
    /\ dirtyListeners' = s.dirtyListeners
    /\ changeListeners' = s.changeListeners
    /\ dependencies' = s.dependencies
    /\ initialized' = s.initialized
    /\ lastRead' = s.lastRead
    /\ dirtySince' = s.dirtySince
    /\ changeSince' = s.changeSince
    /\ dirtiedSince' = s.dirtiedSince
    /\ computed' = s.computed
    /\ isPassive' = s.isPassive
    /\ fired' = s.fired

IsProbe(l) == l.kind \in {"probe", "thrower"}
Count(seq) == Cardinality({i \in 1 .. Len(seq) : IsProbe(seq[i])})

RECURSIVE Sum(_, _)
Sum(f, S) == IF S = {} THEN 0
             ELSE LET x == CHOOSE x \in S : TRUE IN f[x] + Sum(f, S \ {x})

\* The number of user listeners subscribed.
Subscribed ==
    Sum([w \in Watchables |-> Count(dirtyListeners[w]) + Count(changeListeners[w])],
        Watchables)

\* An operation of the program's user: w.get(), w.onDirty(probe of g),
\* w.onChange(probe of g), w.set(x).commit(), w.set(x).chain(g.set(y)).commit().
Op(name, w, x, g, y) == [op |-> name, w |-> w, x |-> x, g |-> g, y |-> y]

GetOps == {Op("get", w, 0, NoWatch, 0) : w \in Watchables \ {"start", "end"}}
OnDirtyOps ==
    {Op("onDirty", w, 0, t, 0) : w \in Watchables, t \in Watchables}
OnChangeOps ==
    {Op("onChange", w, 0, t, 0) : w \in Watchables, t \in Watchables}
SetOps == UNION {{Op("set", f, x, NoWatch, 0) : x \in ValuesOf(f)} : f \in Fields}
ChainOps == {Op("chain", f, x, g, y) : f \in Fields, x \in Values,
                                       g \in Fields, y \in Values}

\* The operations that can be performed in the current state.
Possible(op) ==
    IF op.op = "onDirty"
    THEN /\ <<"dirty", op.w, op.g>> \in ProbeMenu
         /\ Subscribed < MaxListeners
         /\ Probe(op.g) \notin Live(dirtyListeners[op.w])
    ELSE IF op.op = "onChange"
    THEN /\ <<"change", op.w, op.g>> \in ProbeMenu
         /\ Subscribed < MaxListeners
         /\ Probe(op.g) \notin Live(changeListeners[op.w])
    ELSE IF op.op = "markChanged" THEN dirty[op.w]
    ELSE TRUE

\* A pending timer of t fires.
TimerOps == {Op("timer", "t", id, NoWatch, 0) : id \in timers}

\* sig.markDirty() and sig.markChanged()
SignalOps ==
    {Op(c, w, 0, NoWatch, 0) : c \in {"markDirty", "markChanged"},
                               w \in Signals \ {"start", "end"}}

Ops == {op \in GetOps \cup OnDirtyOps \cup OnChangeOps \cup SetOps \cup ChainOps
               \cup TimerOps \cup SignalOps :
           Possible(op)}

\* m = w.set(x), n = g.set(y), c = m.chain(n).
ChainMutators(op) ==
    [m \in MutatorIds |-> IF m = "m" THEN Set(op.w, op.x)
                          ELSE IF m = "n" THEN Set(op.g, op.y)
                          ELSE Chain("m", "n")]

\* The heap an operation ends in, performed in the current state: what the
\* action of the operation stores.
Exec(op) ==
    IF op.op = "get" THEN get(Heap(NoMutators), op.w)
    ELSE IF op.op = "onDirty" THEN onDirty(Heap(NoMutators), op.w, Probe(op.g))
    ELSE IF op.op = "onChange" THEN onChange(Heap(NoMutators), op.w, Probe(op.g))
    ELSE IF op.op = "set"
    THEN commit(Heap([NoMutators EXCEPT !["m"] = Set(op.w, op.x)]), "m")
    ELSE IF op.op = "timer"
    THEN throttleEnd([Heap(NoMutators) EXCEPT
                          !.timers = @ \ {op.x},
                          !.expired = [c \in {"dirty", "change"} |-> TRUE]], op.w)
    ELSE IF op.op = "markDirty" THEN markDirty(Heap(NoMutators), op.w)
    ELSE IF op.op = "markChanged" THEN markChanged(Heap(NoMutators), op.w)
    ELSE commit(Heap(ChainMutators(op)), "c")

NoMut == [objs |-> <<>>, performed |-> <<>>, signaled |-> <<>>, passed |-> <<>>,
          nPerform |-> <<>>, nSignal |-> <<>>, done |-> <<>>, early |-> <<>>]

InitGraph(g) ==
    /\ graph = g
    /\ mut = NoMut
    /\ throttle = NoThrottle
    /\ timers = {}
    /\ expired = [c \in {"dirty", "change"} |-> TRUE]
    /\ observer = NoObserver
    /\ value = [w \in Watchables |-> IF w \in Fields THEN 0 ELSE Undef]
    /\ dirty = [w \in Watchables |-> TRUE]
    /\ signaled = [w \in Watchables |-> FALSE]
    /\ callingDirtyListeners = [w \in Watchables |-> FALSE]
    /\ callingChangeListeners = [w \in Watchables |-> FALSE]
    /\ dirtyListeners = [w \in Watchables |-> <<>>]
    /\ changeListeners = [w \in Watchables |-> <<>>]
    /\ dependencies = [d \in Deriveds |-> <<>>]
    /\ initialized = [d \in Deriveds |-> FALSE]
    /\ lastRead = [w \in Watchables |-> <<>>]
    /\ dirtySince = [w \in Watchables |-> 0]
    /\ changeSince = [w \in Watchables |-> 0]
    /\ dirtiedSince = [d \in Deriveds |-> {}]
    /\ computed = [d \in Deriveds |-> FALSE]
    /\ isPassive = [d \in Deriveds |-> TRUE]
    /\ fired = FALSE

Init == InitGraph("names")

\* w.get() called from outside any listener.
Get(op) == Possible(op) /\ Store(get(Heap(NoMutators), op.w))

\* w.onDirty(l) for a probe l.
OnDirty(op) ==
    Possible(op) /\ Store(onDirty(Heap(NoMutators), op.w, Probe(op.g)))

\* w.onChange(l) for a probe l.
OnChange(op) ==
    Possible(op) /\ Store(onChange(Heap(NoMutators), op.w, Probe(op.g)))

\* f.set(x).commit()
CommitSet(op) ==
    /\ Possible(op)
    /\ Store(commit(Heap([NoMutators EXCEPT !["m"] = Set(op.w, op.x)]), "m"))

\* f.set(x).chain(g.set(y)).commit()
CommitChain(op) == Possible(op) /\ Store(commit(Heap(ChainMutators(op)), "c"))

Next ==
    \/ \E op \in GetOps : Get(op)
    \/ \E op \in OnDirtyOps : OnDirty(op)
    \/ \E op \in OnChangeOps : OnChange(op)
    \/ \E op \in SetOps : CommitSet(op)
    \/ \E op \in ChainOps : CommitChain(op)

Spec == Init /\ [][Next]_vars

\* The diamond graph: gets, change listeners that read, and commits of s0.
InitDiamond == InitGraph("diamond")

NextDiamond ==
    \/ \E op \in GetOps : Get(op)
    \/ \E op \in OnChangeOps : OnChange(op)
    \/ \E op \in SetOps : CommitSet(op)

SpecDiamond == InitDiamond /\ [][NextDiamond]_vars

\* The pair graph with listeners that throw: the user catches what an
\* operation throws.
InitThrow == InitGraph("pair")

\* w.onDirty(Thrower) or w.onChange(Thrower)
SubscribeThrower(chan, w) ==
    /\ Subscribed < MaxListeners
    /\ Thrower \notin Live(Listeners(Heap(NoMutators), chan)[w])
    /\ Store(IF chan = "dirty" THEN onDirty(Heap(NoMutators), w, Thrower)
             ELSE onChange(Heap(NoMutators), w, Thrower))

NextThrow ==
    \/ \E op \in GetOps : Get(op)
    \/ \E op \in OnDirtyOps : OnDirty(op)
    \/ \E op \in OnChangeOps : OnChange(op)
    \/ \E chan \in {"dirty", "change"}, w \in Watchables : SubscribeThrower(chan, w)
    \/ \E op \in SetOps : CommitSet(op)

SpecThrow == InitThrow /\ [][NextThrow]_vars

\* ------------------------------------------------------ Throttled in use
\* A pending timer fires and runs throttleEnd.
TimerFires(op) ==
    /\ Possible(op)
    /\ Store(throttleEnd([Heap(NoMutators) EXCEPT
                              !.timers = @ \ {op.x},
                              !.expired = [c \in {"dirty", "change"} |-> TRUE]], op.w))

\* sig.markDirty()
MarkDirty(op) ==
    op.op = "markDirty" /\ Store(markDirty(Heap(NoMutators), op.w))

\* sig.markChanged(), called when sig is dirty ("dispatches a change event to
\* all listeners if currently dirty").
MarkChanged(op) ==
    /\ op.op = "markChanged" /\ Possible(op)
    /\ Store(markChanged(Heap(NoMutators), op.w))

\* t = new Throttled(f, period): gets of f and t, change listeners that read,
\* commits of f and timers.
InitThrottled == InitGraph("throttled")

NextThrottled ==
    \/ \E op \in GetOps : Get(op)
    \/ \E op \in OnChangeOps : OnChange(op)
    \/ \E op \in SetOps : CommitSet(op)
    \/ \E op \in TimerOps : TimerFires(op)

SpecThrottled == InitThrottled /\ [][NextThrottled]_vars

\* A pending timer fires and runs throttleEnd; the history variable fired
\* records that it did.
Expire(op) ==
    /\ Possible(op)
    /\ Store(throttleEnd([Heap(NoMutators) EXCEPT
                              !.timers = @ \ {op.x},
                              !.expired = [c \in {"dirty", "change"} |-> TRUE],
                              !.fired = ~@], op.w))

\* A step of Expire, told by the history variable.
Expired == timers # {} /\ fired' = ~fired

\* The same Throttled with commits of f, reads of f and t and timers; a timer
\* that is pending fires at some time (setTimeout runs its callback once the
\* period is over).
NextEventual ==
    \/ \E op \in {o \in GetOps : o.w \in {"f", "t"}} : Get(op)
    \/ \E op \in SetOps : CommitSet(op)
    \/ \E op \in TimerOps : Expire(op)

SpecEventual == InitThrottled /\ [][NextEventual]_vars /\ WF_fired(Expired)

\* t = new Throttled(sig, period): gets of sig and t, a change listener that
\* reads t, markDirty and markChanged of sig, and timers.
InitSignal == InitGraph("signal")

NextSignal ==
    \/ \E op \in GetOps : Get(op)
    \/ \E op \in OnChangeOps : OnChange(op)
    \/ \E op \in SignalOps : MarkDirty(op)
    \/ \E op \in SignalOps : MarkChanged(op)
    \/ \E op \in TimerOps : TimerFires(op)

SpecSignal == InitSignal /\ [][NextSignal]_vars

\* ------------------------------------------------------------ Field in use
\* fld = new Field(0), src = new PlainField(0): gets of fld and src, a change
\* listener on fld that reads it, src.set(x).commit(), fld.set(x).commit() (a
\* commit of val.set({plain: x})) and fld.setSource(src).commit() (a commit of
\* val.set({watchable: src})).
InitField == InitGraph("field")

NextField ==
    \/ \E op \in {o \in GetOps : o.w # "val"} : Get(op)
    \/ \E op \in OnChangeOps : OnChange(op)
    \/ \E op \in SetOps : CommitSet(op)

SpecField == InitField /\ [][NextField]_vars

\* ---------------------------------------------------------- Checked in use
\* Gets of list, c and g, a change listener on g that reads it, and
\* list.set(array).commit().
InitChecked == InitGraph("checked")

NextChecked ==
    \/ \E op \in GetOps : Get(op)
    \/ \E op \in OnChangeOps : OnChange(op)
    \/ \E op \in SetOps : CommitSet(op)

SpecChecked == InitChecked /\ [][NextChecked]_vars

\* --------------------------------------------------------------- Observer
\* The listeners added to the Observer, and how many.
MaxObserved == 2
ObserverListeners == {"a", "b"}

\* `this.previous = source.get(); this.innerDestroy = source.onChange(this.change)`
\* of the constructor, s1 the heap after the get.
Observer_subscribe(s1, x) ==
    IF s1.threw THEN s1
    ELSE onChange([s1 EXCEPT !.observer = [constructed |-> TRUE, previous |-> s1.ret,
                                           listeners |-> <<>>, innerDestroy |-> TRUE]],
                  x, ObserverChange(x))

\* new Observer(x)
Observer_constructor(s, x) == Observer_subscribe(get(s, x), x)

\* Observer.add
Observer_add(s, l, initCall) ==
    LET s1 == IF initCall
              THEN [s EXCEPT !.log.delivered =
                                 Append(@, [l |-> l, val |-> s.observer.previous,
                                            prev |-> Undef])]
              ELSE s
    IN [s1 EXCEPT !.observer.listeners = Append(@, l)]

\* Observer.destroy
Observer_destroy(s, x) ==
    IF ~s.observer.innerDestroy THEN s
    ELSE [delete(s, "change", x, ObserverChange(x)) EXCEPT !.observer.innerDestroy = FALSE]

\* o = new Observer(f)
NewObserver == ~observer.constructed /\ Store(Observer_constructor(Heap(NoMutators), "f"))

\* o.add(l, initCall)
ObserverAdd(l, initCall) ==
    /\ observer.constructed
    /\ Len(observer.listeners) < MaxObserved
    /\ Store(Observer_add(Heap(NoMutators), l, initCall))

\* o.destroy()
ObserverDestroy ==
    observer.constructed /\ Store(Observer_destroy(Heap(NoMutators), "f"))

InitObserver == InitGraph("observer")

NextObserver ==
    \/ \E op \in GetOps : Get(op)
    \/ \E op \in SetOps : CommitSet(op)
    \/ \E op \in ChainOps : CommitChain(op)
    \/ NewObserver
    \/ \E l \in ObserverListeners, initCall \in BOOLEAN : ObserverAdd(l, initCall)
    \/ ObserverDestroy

SpecObserver == InitObserver /\ [][NextObserver]_vars

\* The "nested" graph: a field f and o = new Observer(f) whose listeners are
\* "a" and the Writer, which commits a mutation of f from inside its call.
InitNested == InitGraph("nested")

NextNested ==
    \/ \E op \in GetOps : Get(op)
    \/ \E op \in SetOps : CommitSet(op)
    \/ NewObserver
    \/ \E l \in {"a", Writer} : ObserverAdd(l, FALSE)
    \/ ObserverDestroy

SpecNested == InitNested /\ [][NextNested]_vars

\* ------------------------------------------------------ weak listener sets
\* The field f of the "weak" graph with user listeners on both channels: the
\* user subscribes and unsubscribes them in any order, the garbage collector
\* collects a listener nobody else refers to, and the FinalizationRegistry
\* callback of a collected listener runs at any later time.
\* (MaxSubs: the entries of its two listener sets together.)
MaxSubs == 3
Chans == {"dirty", "change"}
UserListeners == {Plain("a"), Plain("b"), Unsubscriber("self"), Unsubscriber("a")}

ListenersOf(chan) == IF chan = "dirty" THEN dirtyListeners["f"] ELSE changeListeners["f"]

\* The listener object still exists.
Alive(l) == \A chan \in Chans : Dead(l) \notin Live(ListenersOf(chan))

\* Nothing but the listener sets refers to l: the unsubscribe function of a
\* subscription refers to its listener, so Plain(n) stays while Unsubscriber(n)
\* does.
Unreferenced(l) ==
    /\ \E chan \in Chans : l \in Live(ListenersOf(chan))
    /\ l.kind = "plain" =>
           \A chan \in Chans : Unsubscriber(l.of) \notin Live(ListenersOf(chan))

\* The garbage collector collects l: the WeakRefs of l give undefined from now.
collect(s, l) ==
    LET kill(seq) == [i \in 1 .. Len(seq) |-> IF seq[i] = l THEN Dead(l) ELSE seq[i]]
    IN [s EXCEPT !.dirtyListeners["f"] = kill(@), !.changeListeners["f"] = kill(@)]

\* IterableWeakSet.finalization: `ref => { this.refs.delete(ref) }`.
finalization(s, chan, w, ref) == delete(s, chan, w, ref)

\* IterableWeakSet.size.
size(s, chan, w) == Len(Compact(Listeners(s, chan)[w]))

\* f.onDirty(l) or f.onChange(l)
Subscribe(chan, l) ==
    /\ Alive(l)
    /\ l \in Live(ListenersOf(chan))
       \/ Len(dirtyListeners["f"]) + Len(changeListeners["f"]) < MaxSubs
    /\ Store(add(Heap(NoMutators), chan, "f", l))

\* The unsubscribe function f.onDirty(l) or f.onChange(l) returned is called.
Unsubscribe(chan, l) ==
    Alive(l) /\ Store(delete(Heap(NoMutators), chan, "f", l))

\* The garbage collector runs.
Collect(l) == Alive(l) /\ Unreferenced(l) /\ Store(collect(Heap(NoMutators), l))

\* The cleanup callback of a collected listener runs.
Finalize(chan, l) ==
    /\ Dead(l) \in Live(ListenersOf(chan))
    /\ Store(finalization(Heap(NoMutators), chan, "f", Dead(l)))

InitWeak == InitGraph("weak")

NextWeak ==
    \/ \E op \in GetOps : Get(op)
    \/ \E op \in SetOps : CommitSet(op)
    \/ \E chan \in Chans, l \in UserListeners : Subscribe(chan, l)
    \/ \E chan \in Chans, l \in UserListeners : Unsubscribe(chan, l)
    \/ \E l \in UserListeners : Collect(l)
    \/ \E chan \in Chans, l \in UserListeners : Finalize(chan, l)

SpecWeak == InitWeak /\ [][NextWeak]_vars

\* --------------------------------------------------------- PassiveDerived
\* PassiveDerived.updatePassive.
updatePassive(s, p) ==
    LET passive == size(s, "dirty", p) = 0 /\ size(s, "change", p) = 0
    IN IF passive = s.isPassive[p] THEN s
       ELSE IF passive
       THEN unsubDependencies(unsubDependencies([s EXCEPT !.isPassive[p] = TRUE],
                                                "dirty", p, 1), "change", p, 1)
       ELSE resubscribe([s EXCEPT !.isPassive[p] = FALSE], p, 1)

\* PassiveDerived.onDirty / onChange.
PassiveDerived_on(s, chan, p, l) == updatePassive(add(s, chan, p, l), p)

\* The function PassiveDerived.onDirty / onChange returns: `remove();
\* this.updatePassive()`.
PassiveDerived_remove(s, chan, p, l) == updatePassive(delete(s, chan, p, l), p)

\* p.onDirty(l) or p.onChange(l) for the listener l = Plain("a").
PassiveSubscribe(chan) ==
    Store(PassiveDerived_on(Heap(NoMutators), chan, "p", Plain("a")))

\* The function p.onDirty(l) or p.onChange(l) returned is called.
PassiveUnsubscribe(chan) ==
    Store(PassiveDerived_remove(Heap(NoMutators), chan, "p", Plain("a")))

InitPassive == InitGraph("passive")

NextPassive ==
    \/ \E op \in GetOps : Get(op)
    \/ \E op \in SetOps : CommitSet(op)
    \/ \E chan \in Chans : PassiveSubscribe(chan)
    \/ \E chan \in Chans : PassiveUnsubscribe(chan)

SpecPassive == InitPassive /\ [][NextPassive]_vars

\* ------------------------------------------------------ Mutator objects
\* Mutators are constructed, composed and called in any order.  A mutator is
\* named by its index in mut.objs.
MaxMutators == 5
MaxLeaves == 3
MaxKids == 3

MutIds == 1 .. Len(mut.objs)

\* The mutators a composed mutator was made from, in composition order.
Operands(o) ==
    IF o.kind \in {"chain", "chainFn"} THEN <<o.a, o.b>>
    ELSE IF o.kind = "map" THEN <<o.a>>
    ELSE IF o.kind = "builder" THEN o.kids
    ELSE <<>>

\* The mutators that were not given to chain, map, all or chain(obtain) yet.
Roots ==
    {m \in MutIds :
        \A i \in MutIds : \A j \in 1 .. Len(Operands(mut.objs[i])) :
            Operands(mut.objs[i])[j] # m}

KidSeqs ==
    {k \in UNION {[1 .. n -> Roots] : n \in 0 .. MaxKids} :
        \A i, j \in DOMAIN k : i # j => k[i] # k[j]}

\* The heap at the start of a call on the mutators constructed so far.
MutHeap ==
    [Heap(mut.objs) EXCEPT !.performed = mut.performed, !.msignaled = mut.signaled,
                           !.passed = mut.passed, !.nPerform = mut.nPerform,
                           !.nSignal = mut.nSignal, !.done = mut.done,
                           !.early = mut.early]

StoreMut(s) ==
    /\ mut' = [objs |-> s.mutators, performed |-> s.performed,
               signaled |-> s.msignaled, passed |-> s.passed,
               nPerform |-> s.nPerform, nSignal |-> s.nSignal, done |-> s.done,
               early |-> s.early]
    /\ UNCHANGED <<graph, throttle, timers, expired, observer, value, dirty, signaled, callingDirtyListeners,
                   callingChangeListeners, dirtyListeners, changeListeners,
                   dependencies, initialized, lastRead, dirtySince, changeSince,
                   dirtiedSince, computed, isPassive, fired>>

\* The Mutator constructor ran for the objects added to objs: the fields
\* performed, signaled and passed of a new object are undefined.
Construct(objs) ==
    /\ Len(objs) <= MaxMutators
    /\ StoreMut([MutHeap EXCEPT
           !.mutators = objs,
           !.performed = [i \in DOMAIN objs |-> i \in MutIds /\ mut.performed[i]],
           !.msignaled = [i \in DOMAIN objs |-> i \in MutIds /\ mut.signaled[i]],
           !.passed = [i \in DOMAIN objs |-> IF i \in MutIds THEN mut.passed[i] ELSE <<>>],
           !.nPerform = [i \in DOMAIN objs |-> IF i \in MutIds THEN mut.nPerform[i] ELSE 0],
           !.nSignal = [i \in DOMAIN objs |-> IF i \in MutIds THEN mut.nSignal[i] ELSE 0],
           !.done = [i \in DOMAIN objs |-> i \in MutIds /\ mut.done[i]],
           !.early = [i \in DOMAIN objs |-> i \in MutIds /\ mut.early[i]]])

\* mutators.reduce((a, b) => a.chain(b)), acc the mutator accumulated so far.
RECURSIVE reduce(_, _, _)
reduce(objs, acc, rest) ==
    IF rest = <<>> THEN objs
    ELSE reduce(Append(objs, Chain(acc, Head(rest))), Len(objs) + 1, Tail(rest))

\* all(mutators)
all(objs, mutators) ==
    IF Len(mutators) = 0 THEN Append(objs, dummyMutator)
    ELSE reduce(objs, Head(mutators), Tail(mutators))

\* new Mutator(p, s)
NewLeaf(re) ==
    /\ Cardinality({m \in MutIds : mut.objs[m].kind = "leaf"}) < MaxLeaves
    /\ Construct(Append(mut.objs, Leaf(re)))

\* a.chain(b)
NewChain(a, b) == a # b /\ Construct(Append(mut.objs, Chain(a, b)))

\* a.chain(() => b)
NewChainFn(a, b) == a # b /\ Construct(Append(mut.objs, ChainFn(a, b)))

\* a.map(f)
NewMap(a) == Construct(Append(mut.objs, Map(a)))

\* all(kids)
NewAll(kids) == Len(kids) # 1 /\ Construct(all(mut.objs, kids))

\* chain(push => { for (const k of kids) push(k) })
NewBuilder(kids) == Construct(Append(mut.objs, Builder(kids)))

\* try { m.commit() } catch (e) {}, and the same for perform and signal.
Call(c, m) == StoreMut(tryCall(MutHeap, c, m))

InitMut == InitGraph("names")

\* Composition: leaves that make no reentrant call are composed in every way,
\* and the mutator that everything was composed into is committed.
NextMut ==
    \/ NewLeaf("none")
    \/ \E a, b \in Roots : NewChain(a, b)
    \/ \E a, b \in Roots : NewChainFn(a, b)
    \/ \E a \in Roots : NewMap(a)
    \/ \E kids \in KidSeqs : NewAll(kids)
    \/ \E kids \in KidSeqs : NewBuilder(kids)
    \/ \E m \in Roots : Roots = {m} /\ Call("commit", m)

SpecMut == InitMut /\ [][NextMut]_vars

\* Misuse: commit, perform and signal are called in any order on up to
\* MaxMisused mutators, leaves that call themselves from their perform
\* callback included.
MaxMisused == 3

NextMisuse ==
    \/ \E re \in {"none", "commit", "perform", "signal"} :
           Len(mut.objs) < MaxMisused /\ NewLeaf(re)
    \/ \E a, b \in Roots : Len(mut.objs) < MaxMisused /\ NewChain(a, b)
    \/ \E c \in {"commit", "perform", "signal"}, m \in MutIds : Call(c, m)

SpecMisuse == InitMut /\ [][NextMisuse]_vars

\* ---------------------------------------------------------------- claims
\* The claims are about what happens inside an operation.  Each is stated over
\* every operation op that can be performed in a reachable state and the log
\* Exec(op).log of what that operation does: its gets (reads), its dirty and
\* change broadcasts (notes), its probe calls (calls) and its invocations of
\* compute functions (computes).
Reads(op) == LET r == Exec(op).log.reads IN {r[i] : i \in 1 .. Len(r)}
Notes(op) == LET r == Exec(op).log.notes IN {r[i] : i \in 1 .. Len(r)}
Calls(op) == LET r == Exec(op).log.calls IN {r[i] : i \in 1 .. Len(r)}
Computes(op) == LET r == Exec(op).log.computes IN {r[i] : i \in 1 .. Len(r)}

\* C1 (Notifies): when a get of w returns a value different from the one the
\* previous get of w returned, w has broadcast change between the two gets.
C1_Notifies ==
    \A op \in Ops : \A e \in Reads(op) :
        (e.ok /\ e.prev # <<>> /\ e.prev # <<e.v>>) => e.nChange >= 1

\* C2 (NoRedundantEvents): between two successive gets of w (or creation and
\* the first get), w broadcasts dirty at most once and change at most once.
C2_NoRedundantEvents ==
    \A op \in Ops : \A e \in Notes(op) : e.nDirty <= 1 /\ e.nChange <= 1

\* C3 (DirtyBeforeChange): every change broadcast of w is preceded by a dirty
\* broadcast of w since the last get of w.  (Stated for watchables that have
\* been read; the interval since creation is left out, in the claim's favour.)
C3_DirtyBeforeChange ==
    \A op \in Ops : \A e \in Notes(op) :
        (e.chan = "change" /\ e.read) => e.nDirty >= 1

\* C4: a get of w called while a dirty broadcast of w is on the call stack
\* (from one of w's dirty listeners, or from a listener further down) throws.
C4_ReadInOwnDirtyBroadcastFails ==
    \A op \in Ops : \A e \in Reads(op) : e.own => ~e.ok

C4_Witness ==
    \E op \in Ops :
        /\ \E e \in Reads(op) : e.own /\ ~e.ok /\ e.w \in Fields
        /\ \E c \in Calls(op) : c.host = "full" /\ c.l.of = "first" /\ ~c.ok

\* C5 as claimed: a get of any watchable throws while any watchable of the
\* graph is broadcasting dirty.
C5_GraphWide ==
    \A op \in Ops : \A e \in Reads(op) : e.any => ~e.ok

\* C5 as amended: a get of w throws when w's own registry is calling its dirty
\* listeners; while only other watchables are broadcasting dirty, a get of a
\* field, or of a Derived that is not dirty, succeeds.
C5_OwnRegistryOnly ==
    \A op \in Ops : \A e \in Reads(op) :
        /\ e.flag => ~e.ok
        /\ (e.any /\ ~e.flag /\ e.clean) => e.ok

C5_Witness ==
    /\ \E op \in Ops : \E e \in Reads(op) :
           e.any /\ ~e.flag /\ e.ok /\ e.w \in Fields
    /\ \E op \in Ops : \E e \in Reads(op) :
           e.any /\ ~e.flag /\ e.ok /\ e.w \in Deriveds
    /\ \E op \in Ops : \E e \in Reads(op) : e.flag /\ ~e.ok

\* C6 (Transparency): every successful get of a Derived returns what its
\* compute function returns on the values of the fields at that moment.
\* (Stated for gets made while no dirty broadcast is in progress, the README's
\* exception, in the claim's favour.)
C6_Transparency ==
    \A op \in Ops : \A e \in Reads(op) :
        (e.ok /\ e.w \in Deriveds /\ ~e.any) => e.v = e.exp

\* C7 as claimed: whenever compute is invoked again, a dependency has broadcast
\* dirty since the previous invocation and holds a value different from the
\* one the Derived last observed.
C7_Caching ==
    \A op \in Ops : \A e \in Computes(op) : e.again => e.cause

\* C7 as amended: the same, for a Derived that is initialized (one of its
\* computations has completed).
C7_CachingInitialized ==
    \A op \in Ops : \A e \in Computes(op) :
        (e.again /\ e.initialized) => e.cause

C7_Witness ==
    \E op \in Ops : \E e \in Computes(op) : e.again /\ e.initialized /\ e.cause

\* C8 (Laziness): compute of d is invoked only while a get of d is on the
\* call stack.
C8_Laziness ==
    \A op \in Ops : \A e \in Computes(op) : e.inGet

C8_Witness ==
    \E op \in Ops : op.op = "chain" /\ \E e \in Computes(op) : e.inGet

\* The derived value is up to date and subscribed to both fields, and a change
\* listener that reads it is registered on it.
FullSettled ==
    /\ ~dirty["full"] /\ initialized["full"]
    /\ Len(dependencies["full"]) = 2
    /\ \A i \in 1 .. 2 : /\ dependencies["full"][i].unsubDirty
                         /\ dependencies["full"][i].unsubChange
    /\ value["full"] = Result([value |-> value], "full", <<value["first"], value["last"]>>)
    /\ Probe("full") \in Live(changeListeners["full"])

\* The calls of the change listener of full that reads full, in order.
ListenerCalls(op) ==
    SelectSeq(Exec(op).log.calls,
              LAMBDA c : c.chan = "change" /\ c.host = "full" /\ c.l = Probe("full"))

\* C9 (atomic group): with full up to date and a change listener registered on
\* it, committing first.set(x).chain(last.set(y)) that changes a field calls
\* the listener exactly once, and its read of full returns the value computed
\* from x and y.
C9_AtomicGroup ==
    \A op \in Ops :
        (/\ op.op = "chain" /\ op.w = "first" /\ op.g = "last"
         /\ FullSettled
         /\ (op.x # value["first"] \/ op.y # value["last"]))
        => /\ Len(ListenerCalls(op)) = 1
           /\ ListenerCalls(op)[1].ok
           /\ ListenerCalls(op)[1].v = Result([value |-> value], "full", <<op.x, op.y>>)

\* The heap after m.commit() followed by n.commit().
Sequential(op) == commit(commit(Heap(ChainMutators(op)), "m"), "n")

\* C10: m.chain(n).commit() leaves the field values of m.commit() followed by
\* n.commit(), and no listener called during it reads successfully while
\* m's write is in place and n's write is not.
C10_ChainIsolated ==
    \A op \in Ops :
        (op.op = "chain" /\ op.w # op.g)
        => /\ \A f \in Fields : Exec(op).value[f] = Sequential(op).value[f]
           /\ \A c \in Calls(op) :
                 ~(/\ c.ok
                   /\ op.x # value[op.w] /\ c.fvals[op.w] = op.x
                   /\ op.y # value[op.g] /\ c.fvals[op.g] = value[op.g])

\* The listener invocations of one operation.
Invoked(op) == LET r == Exec(op).log.invoked IN {r[i] : i \in 1 .. Len(r)}

\* C13: after f.set(x).commit(), f.get() returns x; when equals(old, x) held,
\* that is the old value, and the commit invoked no listener of f.
C13_SetRoundTrip ==
    \A op \in Ops :
        op.op = "set"
        => /\ ~get(Exec(op), op.w).threw
           /\ get(Exec(op), op.w).ret = op.x
           /\ equals(value[op.w], op.x) => \A i \in Invoked(op) : i.host # op.w

\* C13, the part that holds: the value read back.
C13_ReadBack ==
    \A op \in Ops :
        op.op = "set"
        => ~get(Exec(op), op.w).threw /\ get(Exec(op), op.w).ret = op.x

\* C16: when a get of a Derived fails in its update (not at the guard of the
\* Derived itself), the Derived is dirty when the get returns to its caller.
C16_FailedReadLeavesDirty ==
    \A op \in Ops : \A e \in Reads(op) :
        (e.w \in Deriveds /\ ~e.ok /\ ~e.flag) => e.dirtyAfter

\* ------------------------------------------------------------- the diamond
\* The last derived value of the diamond graph.
Last == "s3"

\* Last is up to date and subscribed to its dependencies, and the change
\* listener that reads it is registered on it.
LastSettled ==
    /\ graph = "diamond"
    /\ ~dirty[Last] /\ initialized[Last]
    /\ Len(dependencies[Last]) = Len(Watches(Last))
    /\ \A i \in 1 .. Len(dependencies[Last]) :
           /\ dependencies[Last][i].unsubDirty
           /\ dependencies[Last][i].unsubChange
    /\ value[Last] = Transparent([value |-> value], Last, <<>>)
    /\ Probe(Last) \in Live(changeListeners[Last])

\* The calls of the change listener of Last that reads Last, in order.
LastCalls(op) ==
    SelectSeq(Exec(op).log.calls,
              LAMBDA c : c.chan = "change" /\ c.host = Last /\ c.l = Probe(Last))

\* The dirty broadcasts of Last, in order.
LastDirties(op) ==
    SelectSeq(Exec(op).log.notes, LAMBDA e : e.chan = "dirty" /\ e.w = Last)

\* The value of Last when s0 holds x.
Consistent(x) == Transparent([value |-> [value EXCEPT !["s0"] = x]], Last, <<>>)

\* C14 (diamond): with Last up to date and a change listener registered on it,
\* committing s0.set(x) with x different from s0's value makes Last broadcast
\* dirty at most once and calls the listener exactly once, and the listener's
\* read of Last returns the value computed from x throughout.
C14_Diamond ==
    \A op \in Ops :
        (op.op = "set" /\ op.w = "s0" /\ LastSettled /\ ~equals(value["s0"], op.x))
        => /\ Len(LastDirties(op)) <= 1
           /\ Len(LastCalls(op)) = 1
           /\ LastCalls(op)[1].ok
           /\ LastCalls(op)[1].v = Consistent(op.x)

C14_Witness ==
    /\ LastSettled
    /\ Probe(Last) \in Live(changeListeners["s1"])
    /\ \E op \in Ops :
           /\ op.op = "set" /\ op.w = "s0" /\ ~equals(value["s0"], op.x)
           /\ Len(LastDirties(op)) = 1
           /\ Len(LastCalls(op)) = 1
           /\ LastCalls(op)[1].v = Consistent(op.x)
           /\ Consistent(op.x) # value[Last]

\* The broadcasts of one operation, in order.
NoteSeq(op) == Exec(op).log.notes

\* C15 (dirty wave before change wave): during the commit of a set mutation,
\* when a watchable starts a change broadcast no dirty broadcast of another
\* watchable is in progress, and no watchable starts a dirty broadcast
\* afterwards.
C15_DirtyWaveFirst ==
    \A op \in Ops :
        op.op = "set"
        => LET n == NoteSeq(op)
           IN \A i \in 1 .. Len(n) :
                  n[i].chan = "change"
                  => /\ ~n[i].inDirty
                     /\ \A j \in i + 1 .. Len(n) : n[j].chan # "dirty"

C15_Witness ==
    \E op \in Ops :
        /\ op.op = "set"
        /\ \A w \in Watchables :
               \E i, j \in 1 .. Len(NoteSeq(op)) :
                   /\ i < j
                   /\ NoteSeq(op)[i].w = w /\ NoteSeq(op)[i].chan = "dirty"
                   /\ NoteSeq(op)[j].w = w /\ NoteSeq(op)[j].chan = "change"

\* ------------------------------------------------------------ composition
\* The leaves of mutator m, in composition order.
RECURSIVE Leaves(_)
RECURSIVE LeavesOfAll(_)
LeavesOfAll(ms) == IF ms = <<>> THEN <<>> ELSE Leaves(Head(ms)) \o LeavesOfAll(Tail(ms))
Leaves(m) ==
    IF mut.objs[m].kind = "leaf" THEN <<m>> ELSE LeavesOfAll(Operands(mut.objs[m]))

\* The mutators m was composed from, m included.
RECURSIVE Parts(_)
Parts(m) ==
    {m} \cup UNION {Parts(Operands(mut.objs[m])[i]) :
                       i \in 1 .. Len(Operands(mut.objs[m]))}

\* Neither m nor a mutator it was composed from was performed or signaled, and
\* no leaf of m calls its mutator from its perform callback.
Fresh(m) ==
    \A x \in Parts(m) :
        /\ ~mut.performed[x] /\ ~mut.signaled[x]
        /\ mut.objs[x].kind = "leaf" => mut.objs[x].re = "none"

\* The callbacks of the leaves of one m.commit(), in the order they ran.
Trace(m) == commit(MutHeap, m).log.trace

\* C11 (perform before signal): committing a mutator composed with chain (both
\* forms), map, all and chain(obtain) that was not used before runs the perform
\* callback of every leaf in composition order, then the signal callback of
\* every leaf in the same order, each once, and does not throw.
C11_PerformsThenSignals ==
    \A m \in MutIds :
        Fresh(m)
        => /\ ~commit(MutHeap, m).threw
           /\ Trace(m) = [i \in 1 .. Len(Leaves(m)) |-> <<"perform", Leaves(m)[i]>>]
                         \o [i \in 1 .. Len(Leaves(m)) |-> <<"signal", Leaves(m)[i]>>]

C11_Witness ==
    \E m \in MutIds :
        /\ Fresh(m) /\ Len(Leaves(m)) = 2
        /\ mut.objs[m].kind = "builder"
        /\ \E x \in Parts(m) : mut.objs[x].kind = "chainFn"
        /\ \E x \in Parts(m) : mut.objs[x].kind = "map"
        /\ Len(Trace(m)) = 4
        /\ Trace(m)[2][1] = "perform" /\ Trace(m)[3][1] = "signal"

\* The call c of mutator m is one the Mutator must refuse: a second commit, a
\* commit after perform, a second perform, a signal before perform, a second
\* signal.
Refused(c, m) ==
    IF c = "commit" THEN mut.performed[m] \/ mut.signaled[m]
    ELSE IF c = "perform" THEN mut.performed[m]
    ELSE ~mut.performed[m] \/ mut.signaled[m]

\* C12 (each stage once): whatever calls were made, the perform callback of
\* every mutator ran at most once, its signal callback ran at most once and
\* not before its perform callback returned, and a call that must be refused
\* throws.
C12_EachStageOnce ==
    /\ \A m \in MutIds :
          /\ mut.nPerform[m] <= 1
          /\ mut.nSignal[m] <= 1
          /\ ~mut.early[m]
    /\ \A m \in MutIds : \A c \in {"commit", "perform", "signal"} :
          Refused(c, m) => callMut(MutHeap, c, m).threw

\* C17 (listener failure isolation): every listener registered on channel
\* chan of w when w starts a broadcast on chan during a set commit is invoked
\* in that commit.
C17_AllListenersInvoked ==
    \A op \in Ops :
        op.op = "set"
        => \A e \in Notes(op) :
               \A l \in Live(Listeners(Heap(NoMutators), e.chan)[e.w]) :
                   [l |-> l, host |-> e.w, chan |-> e.chan] \in Invoked(op)


\* --- Throttled
\* t.get() right after the operation op.
ReadAfter(op) == get(Exec(op), "t").ret

\* The broadcasts of t during the operation op.
ThrottledNotes(op) ==
    LET n == NoteSeq(op) IN {n[i] : i \in {j \in 1 .. Len(n) : n[j].w \in Throttleds}}

\* C18 (Throttled visibility): for a Throttled t over the field f, a change of
\* f committed while no epoch is active is returned by the next t.get(); a
\* change of f committed while an epoch is active and t is clean (it was read
\* after its last dirty) leaves t.get() at the value t had; and after the
\* timer has fired t.get() returns the current value of f.
C18_Visibility ==
    /\ \A op \in SetOps :
           ~throttle.active /\ op.x # value[op.w] => ReadAfter(op) = op.x
    /\ \A op \in SetOps :
           throttle.active /\ ~dirty["t"] => ReadAfter(op) = value["t"]
    /\ \A op \in TimerOps : ReadAfter(op) = value["f"]

\* A change of f was held back in the running epoch: t is clean and still has
\* the old value, and the read after the timer gives the value of f.
C18_Witness ==
    /\ graph = "throttled"
    /\ throttle.active /\ throttle.signal = "change"
    /\ ~dirty["t"] /\ value["t"] # value["f"]
    /\ \E op \in TimerOps : ReadAfter(op) = value["f"]

\* C19 (Throttled rate limit): every dirty or change broadcast of t happens
\* in an operation that has started an epoch before it (the source's event
\* found no epoch to hold it back, or the timer fired with a pending signal),
\* and since the previous broadcast of t on the same channel a timer of t has
\* fired.
C19_RateLimit ==
    \A op \in Ops : \A n \in ThrottledNotes(op) : n.epoch /\ n.expired

\* The timer fires with a pending change: t broadcasts dirty and change.
C19_Witness ==
    \E op \in TimerOps :
        /\ throttle.signal = "change"
        /\ \E n \in ThrottledNotes(op) : n.chan = "dirty"
        /\ \E n \in ThrottledNotes(op) : n.chan = "change"

\* C20 (Throttled respects the watchable invariants): between two reads of t,
\* t broadcasts dirty at most once and change at most once, and when t
\* broadcasts change it has broadcast dirty since its last read.
C20_ThrottledInvariants ==
    \A op \in Ops : \A n \in ThrottledNotes(op) :
        /\ n.nDirty <= 1
        /\ n.nChange <= 1
        /\ n.chan = "change" => n.nDirty = 1


\* The value a read of t.throttling returns in the current state.
ReadThrottling == get(Heap(NoMutators), "th").ret

\* C21 (throttling indicator): whenever t.throttling is read between two
\* operations, it returns true exactly when an update of the source has been
\* suppressed in the active epoch and has not been discharged by the timer.
C21_ThrottlingIndicator ==
    graph \in {"throttled", "signal"} =>
        ReadThrottling = (IF throttle.active /\ throttle.signal # "none" THEN 1 ELSE 0)


\* The dirty broadcasts of w during op.
DirtyNotes(op, w) ==
    LET n == NoteSeq(op)
    IN {i \in 1 .. Len(n) : n[i].w = w /\ n[i].chan = "dirty"}

\* C28 (signal counter): a read of a signal returns an integer counter;
\* markDirty on a signal that is not dirty raises the value a read returns by
\* exactly one and broadcasts dirty once; markDirty on a dirty signal changes
\* neither the counter nor broadcasts anything.
C28_SignalCounter ==
    \A op \in Ops :
        op.op = "markDirty" =>
            IF dirty[op.w]
            THEN /\ Exec(op).value[op.w] = value[op.w]
                 /\ DirtyNotes(op, op.w) = {}
            ELSE /\ get(Exec(op), op.w).ret \in Nat
                 /\ get(Exec(op), op.w).ret = value[op.w] + 1
                 /\ Cardinality(DirtyNotes(op, op.w)) = 1


\* The listeners of channel chan of f that op invoked, in the order of the calls.
RECURSIVE Called(_, _)
Called(inv, chan) ==
    IF inv = <<>> THEN <<>>
    ELSE (IF Head(inv).chan = chan /\ Head(inv).host = "f" THEN <<Head(inv).l>> ELSE <<>>)
         \o Called(Tail(inv), chan)

Times(seq, l) == Cardinality({i \in 1 .. Len(seq) : seq[i] = l})

\* C27 (subscription idempotence): subscribing a listener that is already in
\* the set leaves the set as it is, a listener has at most one entry and is
\* invoked at most once per broadcast, and unsubscribing a listener that is
\* not in the set changes nothing and does not throw.
C27_Idempotent ==
    graph = "weak" =>
        \A chan \in Chans, l \in UserListeners :
            /\ Times(ListenersOf(chan), l) <= 1
            /\ l \in Live(ListenersOf(chan))
               => Listeners(add(Heap(NoMutators), chan, "f", l), chan)["f"] = ListenersOf(chan)
            /\ l \notin Live(ListenersOf(chan))
               => /\ Listeners(delete(Heap(NoMutators), chan, "f", l), chan)["f"]
                     = ListenersOf(chan)
                  /\ ~delete(Heap(NoMutators), chan, "f", l).threw
            /\ \A op \in SetOps : Times(Called(Exec(op).log.invoked, chan), l) <= 1

\* Two listeners are subscribed, one is subscribed again, and the next
\* broadcast calls each once.
C27_Witness ==
    /\ graph = "weak"
    /\ changeListeners["f"] = <<Plain("a"), Plain("b")>>
    /\ add(Heap(NoMutators), "change", "f", Plain("a")).changeListeners["f"]
           = <<Plain("a"), Plain("b")>>
    /\ \E op \in SetOps : Called(Exec(op).log.invoked, "change") = <<Plain("a"), Plain("b")>>

\* The listeners a broadcast over seq calls, from entry i on: the entries whose
\* listener is alive, but for Plain("a") after Unsubscriber("a").
RECURSIVE Turns(_, _)
Turns(seq, i) ==
    IF i > Len(seq) THEN <<>>
    ELSE (IF \/ IsDead(seq[i])
             \/ seq[i] = Plain("a") /\ \E j \in 1 .. i - 1 : seq[j] = Unsubscriber("a")
          THEN <<>> ELSE <<seq[i]>>)
         \o Turns(seq, i + 1)

\* w broadcast on channel chan during op.
Broadcast(op, chan) ==
    \E i \in 1 .. Len(NoteSeq(op)) : NoteSeq(op)[i].chan = chan /\ NoteSeq(op)[i].w = "f"

\* C30 (broadcast order): a broadcast calls the live listeners in the order
\* they were inserted; a listener that unsubscribes itself or another listener
\* causes no failure, and a listener removed before its turn is not called.
C30_BroadcastOrder ==
    graph = "weak" =>
        \A op \in SetOps :
            /\ ~Exec(op).threw
            /\ \A chan \in Chans :
                   Called(Exec(op).log.invoked, chan)
                       = IF Broadcast(op, chan) THEN Turns(ListenersOf(chan), 1) ELSE <<>>

\* A listener that unsubscribes itself is followed by one that unsubscribes a
\* later listener: the broadcast calls the first two only.
C30_Witness ==
    /\ graph = "weak"
    /\ changeListeners["f"] = <<Unsubscriber("self"), Unsubscriber("a"), Plain("a")>>
    /\ \E op \in SetOps :
           /\ Called(Exec(op).log.invoked, "change")
                  = <<Unsubscriber("self"), Unsubscriber("a")>>
           /\ Exec(op).changeListeners["f"] = <<Unsubscriber("a")>>

\* C26 (weak subscriber set): a collected listener is never called, and a
\* broadcast removes the entries of collected listeners, so that the size of
\* the set does not count them afterwards.
C26_WeakSet ==
    graph = "weak" =>
        \A op \in SetOps : \A chan \in Chans :
            /\ \A l \in UserListeners :
                   ~Alive(l) => Times(Called(Exec(op).log.invoked, chan), l) = 0
            /\ Broadcast(op, chan)
               => size(Exec(op), chan, "f") = Cardinality({l \in UserListeners :
                                                  l \in Live(Listeners(Exec(op), chan)["f"])})


\* The value fld mirrors or holds in the current state.
Mirrored == IF value["val"] = Mirror THEN value["src"] ELSE value["val"]

\* C22 (source mirroring): a read of fld returns src.get() while fld mirrors
\* src and the last committed plain value otherwise, whatever was committed
\* through set and setSource before; and when fld mirrors src and was read
\* since its last broadcast, a commit that changes src makes fld broadcast
\* dirty and change, and the next read of fld returns the new value of src.
C22_SourceMirroring ==
    graph = "field" =>
        /\ get(Heap(NoMutators), "fld").ret = Mirrored
        /\ \A op \in SetOps :
               (op.w = "src" /\ op.x # value["src"] /\ value["val"] = Mirror /\ ~dirty["fld"])
               => /\ \E i \in 1 .. Len(NoteSeq(op)) :
                         NoteSeq(op)[i].w = "fld" /\ NoteSeq(op)[i].chan = "dirty"
                  /\ \E i \in 1 .. Len(NoteSeq(op)) :
                         NoteSeq(op)[i].w = "fld" /\ NoteSeq(op)[i].chan = "change"
                  /\ get(Exec(op), "fld").ret = op.x

\* fld mirrors src, was read, and a commit changes src.
C22_Witness ==
    /\ graph = "field"
    /\ value["val"] = Mirror /\ ~dirty["fld"] /\ value["fld"] = 0
    /\ \E op \in SetOps :
           /\ op.w = "src" /\ op.x = 1
           /\ Len(NoteSeq(op)) >= 4
           /\ get(Exec(op), "fld").ret = 1


\* C23 (PassiveDerived stays transparent while passive): a read of p made
\* while p has no listeners returns the value computed from the current value
\* of its dependency, also after the dependency changed while p was passive.
C23_PassiveTransparent ==
    (graph = "passive" /\ dirtyListeners["p"] = <<>> /\ changeListeners["p"] = <<>>)
        => get(Heap(NoMutators), "p").ret = value["f"]


\* The computations of d during the read of d that follows op.
ComputesAfter(op, d) ==
    LET r == get(Exec(op), d).log.computes
    IN {i \in 1 .. Len(r) : r[i].w = d}

\* C24 (equality gate): the first read of c returns the value of list; every
\* later read returns the previous value of c when check holds for the value of
\* list and the previous value, and the value of list otherwise; and when list
\* is set to a different array with the same entries, the next read of g, which
\* watches c, does not invoke g's compute function.
C24_EqualityGate ==
    graph = "checked" =>
        /\ get(Heap(NoMutators), "c").ret
               = IF initialized["c"] /\ check(value["list"], value["c"])
                 THEN value["c"] ELSE value["list"]
        /\ \A op \in SetOps :
               (/\ initialized["g"] /\ ~dirty["g"]
                /\ op.x # value["list"] /\ check(op.x, value["c"]))
               => /\ ComputesAfter(op, "g") = {}
                  /\ get(Exec(op), "g").ret = value["g"]

\* g is up to date, list is set to another array with the same entries, and
\* the read of g that follows recomputes c but not g.
C24_Witness ==
    /\ graph = "checked"
    /\ initialized["g"] /\ ~dirty["g"] /\ value["list"] = 2 * MaxVal
    /\ \E op \in SetOps :
           /\ op.x = 2 * MaxVal + 1
           /\ ComputesAfter(op, "g") = {}
           /\ \E i \in 1 .. Len(get(Exec(op), "g").log.computes) :
                  get(Exec(op), "g").log.computes[i].w = "c"
           /\ get(Exec(op), "g").ret = 2 * MaxVal


\* The change broadcasts of f during op.
Changes(op) ==
    {i \in 1 .. Len(NoteSeq(op)) : NoteSeq(op)[i].w = "f" /\ NoteSeq(op)[i].chan = "change"}

\* C25 (observer delivery): when f broadcasts change during a commit and f's
\* value then differs from the value the Observer read last, the Observer calls
\* every registered listener once, in registration order, with the new value
\* and the value read last; when the value is the same it calls no listener;
\* and it remembers the value it read.
C25_ObserverDelivery ==
    (graph = "observer" /\ observer.innerDestroy) =>
        \A op \in SetOps \cup ChainOps :
            Changes(op) # {} =>
                /\ Exec(op).log.delivered
                       = IF Exec(op).value["f"] # observer.previous
                         THEN Deliveries(observer.listeners, Exec(op).value["f"],
                                         observer.previous)
                         ELSE <<>>
                /\ Exec(op).observer.previous = Exec(op).value["f"]

\* Two listeners were added and a commit changes the value: both are called, in
\* the order they were added.
C25_Witness ==
    /\ graph = "observer" /\ observer.innerDestroy
    /\ observer.listeners = <<"b", "a">> /\ observer.previous = 0
    /\ \E op \in SetOps :
           Exec(op).log.delivered = <<[l |-> "b", val |-> 1, prev |-> 0],
                                      [l |-> "a", val |-> 1, prev |-> 0]>>


\* Every dependency of d has the value d stored for it.
Unchanged(d) ==
    \A i \in 1 .. Len(dependencies[d]) :
        value[dependencies[d][i].watchable] = dependencies[d][i].value

\* d's two listeners are subscribed to every dependency of d in heap s.
Resubscribed(s, d) ==
    \A i \in 1 .. Len(s.dependencies[d]) :
        LET dep == s.dependencies[d][i]
        IN /\ dep.unsubDirty /\ dep.unsubChange
           /\ dirtyListener(d) \in Live(s.dirtyListeners[dep.watchable])
           /\ changeListener(d) \in Live(s.changeListeners[dep.watchable])

\* The broadcasts of d during d.get() followed by f.set(x).commit().
RoundAfterRead(d, f, x) ==
    LET n == commit(get(Heap([NoMutators EXCEPT !["m"] = Set(f, x)]), d), "m").log.notes
    IN {n[i].chan : i \in {j \in 1 .. Len(n) : n[j].w = d}}

\* C29 (resubscribe without recompute): when full is dirty and a read finds
\* the value of every dependency unchanged, the read does not invoke compute,
\* it subscribes full's dirty and change listeners to every dependency again,
\* and a commit that changes one of these dependencies after the read makes
\* full broadcast dirty and change.
C29_ResubscribeWithoutRecompute ==
    (graph = "names" /\ initialized["full"] /\ dirty["full"] /\ Unchanged("full")) =>
        /\ get(Heap(NoMutators), "full").log.computes = <<>>
        /\ get(Heap(NoMutators), "full").ret = value["full"]
        /\ Resubscribed(get(Heap(NoMutators), "full"), "full")
        /\ \A i \in 1 .. Len(dependencies["full"]) :
               \A x \in Values \ {value[dependencies["full"][i].watchable]} :
                   RoundAfterRead("full", dependencies["full"][i].watchable, x)
                       = {"dirty", "change"}

\* full is dirty and lost its subscriptions, its dependencies have the values
\* it stored, and the read subscribes it again without computing.
C29_Witness ==
    /\ graph = "names" /\ initialized["full"] /\ dirty["full"] /\ Unchanged("full")
    /\ ~Resubscribed(Heap(NoMutators), "full")
    /\ Resubscribed(get(Heap(NoMutators), "full"), "full")
    /\ get(Heap(NoMutators), "full").log.computes = <<>>


\* The change broadcasts of w during sig.markChanged() in the current state.
ChangeNotes(s, w) ==
    {i \in 1 .. Len(s.log.notes) : s.log.notes[i].w = w /\ s.log.notes[i].chan = "change"}

\* C34 (markChanged needs dirty): sig.markChanged() on a signal that is not
\* dirty broadcasts no change.
C34_MarkChangedNeedsDirty ==
    (graph = "signal" /\ ~dirty["sig"])
        => ChangeNotes(markChanged(Heap(NoMutators), "sig"), "sig") = {}


\* C33 (throttled timers): at most one timer of t is pending, a timer is
\* pending exactly when an epoch is active, and it is the timer of that epoch
\* (the timer of an epoch that was replaced is cancelled or has fired).
C33_OneTimer ==
    graph \in {"throttled", "signal"} =>
        /\ Cardinality(timers) <= 1
        /\ throttle.active <=> timers # {}
        /\ throttle.active => timers = {throttle.timeoutID}

\* An epoch of type "dirty" is active and sig.markChanged() replaces it by an
\* epoch of type "change": one timer is pending afterwards.
C33_Witness ==
    /\ graph = "signal"
    /\ throttle.active /\ throttle.type = "dirty" /\ dirty["sig"] /\ ~signaled["t"]
    /\ markChanged(Heap(NoMutators), "sig").throttle.type = "change"
    /\ Cardinality(markChanged(Heap(NoMutators), "sig").timers) = 1


\* C36 (guard scope): between operations no dirty broadcast is on the call
\* stack, so a read of a field succeeds, also after a dirty broadcast that
\* ended because a dirty listener threw.
C36_GuardScope ==
    graph = "pair" => \A f \in Fields : ~get(Heap(NoMutators), f).threw


\* d holds no subscription on a dependency in heap s: its records keep no
\* unsubscribe function and its two listeners are in no listener set.
Unsubscribed(s, d) ==
    /\ \A i \in 1 .. Len(s.dependencies[d]) :
           ~s.dependencies[d][i].unsubDirty /\ ~s.dependencies[d][i].unsubChange
    /\ \A x \in Watchables :
           /\ dirtyListener(d) \notin Live(s.dirtyListeners[x])
           /\ changeListener(d) \notin Live(s.changeListeners[x])

\* C31 (passive state): while p has no dirty and no change listener it holds
\* no subscription on any dependency, also after a read made in that state.
C31_PassiveUnsubscribed ==
    (graph = "passive" /\ dirtyListeners["p"] = <<>> /\ changeListeners["p"] = <<>>)
        => Unsubscribed(Heap(NoMutators), "p") /\ Unsubscribed(get(Heap(NoMutators), "p"), "p")


\* The dirty broadcasts of w during op in the current state.
DirtyOf(op, w) ==
    {i \in 1 .. Len(NoteSeq(op)) : NoteSeq(op)[i].w = w /\ NoteSeq(op)[i].chan = "dirty"}

\* C32 (inner equality of Field): when fld was read, a commit of
\* fld.setSource(src) while fld mirrors src, or of fld.set(v) while fld holds
\* the direct value v, makes no dirty broadcast; a commit that switches fld
\* between a direct value and the source makes fld broadcast dirty, whatever
\* value results.
C32_InnerEquality ==
    (graph = "field" /\ ~dirty["fld"]) =>
        \A op \in SetOps :
            op.w = "val" =>
                /\ op.x = value["val"] => \A w \in Watchables : DirtyOf(op, w) = {}
                /\ (op.x = Mirror) # (value["val"] = Mirror) => DirtyOf(op, "fld") # {}

\* fld was read and holds the direct value that src holds, and
\* fld.setSource(src) is committed: fld broadcasts dirty; and fld.set of the
\* value it holds broadcasts nothing.
C32_Witness ==
    /\ graph = "field" /\ ~dirty["fld"]
    /\ value["val"] = 1 /\ value["src"] = 1
    /\ DirtyOf(Op("set", "val", Mirror, NoWatch, 0), "fld") # {}
    /\ DirtyOf(Op("set", "val", 1, NoWatch, 0), "fld") = {}


\* C37 (subscription invariant): between operations, a Derived that is
\* initialized and not dirty has its dirty and its change listener subscribed
\* to every watchable of its dependency records.
C37_CleanIsSubscribed ==
    graph \in {"names", "diamond", "pair"} =>
        \A d \in Deriveds :
            (initialized[d] /\ ~dirty[d]) => Resubscribed(Heap(NoMutators), d)


\* The watchables of d's dependency records in heap s.
DependencyList(s, d) == {s.dependencies[d][i].watchable : i \in 1 .. Len(s.dependencies[d])}

\* In heap s, d's listeners are subscribed to no watchable outside its
\* dependency records.
NoStaleSubscription(s, d) ==
    \A x \in Watchables \ DependencyList(s, d) :
        /\ dirtyListener(d) \notin Live(s.dirtyListeners[x])
        /\ changeListener(d) \notin Live(s.changeListeners[x])

\* C38 (no stale subscriptions): after a read of a Derived that returns, the
\* Derived is subscribed to no watchable outside its dependency records; and
\* when fld holds a direct value, after a read of fld a commit of src.set(x)
\* makes fld broadcast nothing.
C38_NoStaleSubscription ==
    /\ graph \in {"field", "pair", "diamond", "names"} =>
           \A d \in Deriveds :
               ~get(Heap(NoMutators), d).threw
               => NoStaleSubscription(get(Heap(NoMutators), d), d)
    /\ (graph = "field" /\ value["val"] # Mirror /\ ~get(Heap(NoMutators), "fld").threw)
       => /\ "src" \notin DependencyList(get(Heap(NoMutators), "fld"), "fld")
          /\ \A x \in Values : RoundAfterRead("fld", "src", x) = {}

\* fld mirrored src when it was last read and now holds a direct value: the
\* read drops src from the dependency records.
C38_Witness ==
    /\ graph = "field" /\ dirty["fld"] /\ value["val"] # Mirror
    /\ "src" \in DependencyList(Heap(NoMutators), "fld")
    /\ "src" \notin DependencyList(get(Heap(NoMutators), "fld"), "fld")
    /\ \E x \in Values : x # value["src"] /\ RoundAfterRead("fld", "src", x) = {}


\* The perform callbacks of leaves that one m.commit() runs.
Performs(m) == {i \in 1 .. Len(Trace(m)) : Trace(m)[i][1] = "perform"}

\* C40 (failure atomicity of composition): when the commit of c = a.chain(b)
\* throws because a or b was performed before (by perform or by commit), the
\* commit has run the perform callback of no leaf (leaves that make no call from
\* their perform callback).
C40_ChainAtomic ==
    \A c \in MutIds :
        (/\ mut.objs[c].kind = "chain"
         /\ ~mut.performed[c] /\ ~mut.signaled[c]
         /\ mut.performed[mut.objs[c].a] \/ mut.performed[mut.objs[c].b]
         /\ \A x \in Parts(c) : mut.objs[x].kind = "leaf" => mut.objs[x].re = "none"
         /\ commit(MutHeap, c).threw)
        => Performs(c) = {}


\* C39 (previous-value continuity): after a commit, nested commits made by a
\* listener of the Observer included, the value the Observer stores as previous
\* is the value of its source; and every call of a listener during the commit
\* is given as previous the value the call before it was given as new (for the
\* first call, the value stored before the commit).
C39_PreviousContinuity ==
    (graph = "nested" /\ observer.innerDestroy /\ observer.previous = value["f"]) =>
        \A op \in SetOps :
            LET d == Exec(op).log.delivered
            IN /\ Exec(op).observer.previous = Exec(op).value["f"]
               /\ \A i \in 1 .. Len(d) :
                      d[i].prev = IF \E j \in 1 .. i - 1 : d[j].l = d[i].l
                                  THEN d[CHOOSE j \in 1 .. i - 1 :
                                             /\ d[j].l = d[i].l
                                             /\ \A k \in j + 1 .. i - 1 : d[k].l # d[i].l].val
                                  ELSE observer.previous


\* Every timer of t has fired.
Settled == timers = {}

\* No update of the source f was lost: a read of t returns the value of f, and
\* when that differs from the value the last read of t returned, t has
\* broadcast dirty and change since that read.
Delivered ==
    /\ ~get(Heap(NoMutators), "t").threw
    /\ get(Heap(NoMutators), "t").ret = value["f"]
    /\ (lastRead["t"] # <<>> /\ lastRead["t"] # <<value["f"]>>)
       => dirtySince["t"] >= 1 /\ changeSince["t"] >= 1

====
